---- MODULE Spec2Model ----
(***************************************************************************)
(* Verus Web Wallet service worker (src/src/background/index.ts).          *)
(*                                                                         *)
(* The service worker is single-threaded: a message handler runs without   *)
(* interruption from one await to the next.  Each action below is one such *)
(* run: the synchronous code between two awaits of one handler.  Handlers  *)
(* of different messages interleave at their awaits.                       *)
(***************************************************************************)
EXTENDS Integers, Sequences, FiniteSets, TLC

\* ---------------------------------------------------------------- constants
MAX_ATTEMPTS_BEFORE_LOCKOUT == 5
BASE_LOCKOUT_MS == 5000
MAX_LOCKOUT_MS == 3600000
DEFAULT_AUTO_LOCK_MINUTES == 5
MAX_PENDING_LOGINS == 10
PENDING_LOGIN_TTL_MS == 300000
POPUP_COOLDOWN_MS == 3000
MAX_ACCOUNTS == 100
BALANCE_THROTTLE_MS == 3000

CONTENT_SCRIPT_ALLOWLIST == {"DAPP_LOGIN_DEEPLINK", "DAPP_SEND_REQUEST", "PING"}

\* ------------------------------------------------------------------- bounds
\* Date.now() when the service worker starts
Epoch == 10000000
\* clock granularity of the model, in ms
TickMs == 1000
\* messages received / handlers in flight in the consent specification
MaxMsgsConsent == 3
MaxInFlightConsent == 2
\* messages received / handlers in flight in the timed specification
MaxMsgsTimed == 3
MaxInFlightTimed == 2
\* messages received / handlers in flight in the cooldown specification
MaxMsgsCooldown == 3
MaxInFlightCooldown == 2
\* messages received in the capacity specification
MaxMsgsCapacity == 12
\* messages received / handlers in flight in the session specification
MaxMsgsSession == 3
MaxInFlightSession == 2
\* password attempts in the unlock specification
MaxMsgsUnlock == 7
\* UTXOs listUnspent returns in the builder specification
MaxUtxos == 6
\* stored failure count at the start / attempts in the lockout specification
MaxStoredCount == 16
MaxMsgsLockout == 1
\* messages received in the send specification
MaxMsgsSend == 2
\* messages received / handlers in flight in the auto-lock specification
MaxMsgsAutoLock == 3
MaxInFlightAutoLock == 2
\* a step of the clock in the auto-lock specification, in ms
MinuteMs == 60000
\* messages received in the deep-link specification
MaxMsgsDeeplink == 2
\* logical calls of the proxy client in the proxy specification
MaxProxyCalls == 2
\* messages received in the webhook specification
MaxMsgsWebhook == 3
\* code units of a plaintext and of a password in the vault specification
MaxPlaintextUnits == 2
MaxPasswordUnits == 1
\* messages received in the KDF specification; the PBKDF2_ITERATIONS of the
\* build that stored the older vault
MaxMsgsKdf == 3
EarlierIterations == 600000
\* transaction ids / messages received in the transaction-cache specification
MaxTxIds == 2
MaxMsgsTxCache == 2
\* decodings a detail fetch can give in the transaction-cache specification
MaxDecoded == 2
\* messages received / handlers in flight in the accounts specification
MaxMsgsAccounts == 3
MaxInFlightAccounts == 2
\* UTXOs listUnspent returns in the selection specification
MaxUtxosSelect == 3
\* attempts received / handlers in flight in the attempts specification
MaxMsgsAttempts == 3
MaxInFlightAttempts == 2
\* UTXOs the Insight API returns in the assets specification
MaxAssetUtxos == 2
\* messages received / handlers in flight in the balance specification
MaxMsgsBalance == 3
MaxInFlightBalance == 2
\* UTXOs handed to buildCurrencyTransaction in the multi-currency specification
MaxCurrencyUtxos == 3

\* -------------------------------------------------------------------- state
VARIABLES
  now,                \* Date.now()
  pendingLogins,      \* Map id -> PendingLoginRequest & {createdAt}
  pendingSends,       \* Map id -> PendingSendRequest & {createdAt}
  lastPopupByOrigin,  \* Map origin -> time of the last accepted request
  nextId,             \* next value of crypto.randomUUID()
  windows,            \* approval windows that are open
  tabMsgs,            \* chrome.tabs.sendMessage calls made so far
  verifyLog,          \* results verifyChallengeSignature has returned, per id
  claims,             \* id -> the approval handlers that went past the lookup
  expiredIds,         \* ids purgeExpiredRequests has deleted
  session,            \* chrome.storage.session 'session'
  local,              \* chrome.storage.local
  alarmAt,            \* time the 'auto-lock' alarm fires, 0 when not armed
  msgs,               \* number of handler invocations so far
  last,               \* the handler invocation that returned last
  h,                  \* the handler invocations in flight
  tx,                 \* the locals of one run of a transaction builder
  broadcasts,         \* the transactions handed to broadcastTransaction
  verify,             \* the locals of one run of verifyChallengeSignature
  serverIndex,        \* electrum.ts: let serverIndex
  calls,              \* the proxyGet / proxyPost calls made so far
  crypt,              \* the locals of one encryptVault and one decryptVault
  txDetailCache,      \* Map "address:txid" -> CachedTxDetail
  lastBalanceRequestAt  \* index.ts: let lastBalanceRequestAt

vars == <<now, pendingLogins, pendingSends, lastPopupByOrigin, nextId, windows,
          tabMsgs, verifyLog, claims, expiredIds, session, local, alarmAt,
          msgs, last, h, tx, broadcasts, verify, serverIndex, calls, crypt,
          txDetailCache, lastBalanceRequestAt>>

\* what a message changes besides the registries and its own handler
restVars == <<lastPopupByOrigin, nextId, windows, tabMsgs, verifyLog, claims>>
consentVars == <<pendingLogins, pendingSends, expiredIds, restVars>>
\* the state of the modules besides the message handlers
moduleVars == <<verify, serverIndex, calls, crypt, txDetailCache,
               lastBalanceRequestAt>>
stepVars == <<now, msgs, tx, broadcasts, moduleVars>>
walletVars == <<session, local, alarmAt>>

\* ------------------------------------------------------------------ helpers
NoSession == [present |-> FALSE, accounts |-> <<>>, activeIndex |-> 0]

NoEntry == [tabId |-> 0, origin |-> "", reqId |-> 0]

\* the parameters and locals of a transaction builder; here no builder runs
NoTx ==
  [fn |-> "", pc |-> "idle", direct |-> FALSE, addrOk |-> FALSE, amount |-> 0,
   utxos |-> <<>>, feeRate |-> 0, scriptLen |-> 0, decoded |-> "",
   i |-> 0, iters |-> 0, fee |-> 0, selected |-> <<>>, total |-> 0,
   outs |-> <<>>, err |-> ""]

\* the builder returned a raw transaction
\* no run of verifyChallengeSignature
NoVerify ==
  [pc |-> "idle",
   request |-> [parses |-> FALSE, hasSignature |-> FALSE, signature |-> <<>>],
   primaryAddresses |-> <<>>, sigVersion |-> 0, sigBlockHeight |-> 0,
   decoded |-> FALSE, recoveryFlag |-> 0, recoveryBit |-> 0,
   compressed |-> FALSE, compactSig |-> <<>>, todo |-> <<>>, tried |-> {},
   result |-> "", threw |-> FALSE]

\* chrome.storage.local 'vault' when there is none; otherwise
\* {encryptedVault, createdAt, pbkdf2Iterations}
NoVault == [present |-> FALSE, encryptedVault |-> <<>>, pbkdf2Iterations |-> 0]

\* no run of encryptVault / decryptVault
NoCrypt ==
  [pc |-> "idle", plaintext |-> <<>>, password |-> <<>>, other |-> <<>>,
   salt |-> <<>>, iv |-> <<>>, encoded |-> <<>>,
   same |-> [ok |-> FALSE, plaintext |-> <<>>],
   diff |-> [ok |-> FALSE, plaintext |-> <<>>]]

\* the module-level state when the service worker has loaded its modules
ModulesLoaded ==
  /\ verify = NoVerify
  /\ serverIndex = 0
  /\ calls = <<>>
  /\ crypt = NoCrypt
  /\ txDetailCache = <<>>
  /\ lastBalanceRequestAt = 0

hasRawTxAlways(r) == TRUE
hasRawTx(r) == r.pc = "done" /\ r.err = ""

\* a chrome.runtime.MessageSender
PopupSender == [popup |-> TRUE, tab |-> 0, hasUrl |-> FALSE, origin |-> ""]
WebSender(t, o) == [popup |-> FALSE, tab |-> t, hasUrl |-> TRUE, origin |-> o]

\* one invocation of handleMessage
Handler(type, s, rid) ==
  [type |-> type, pc |-> "done", popup |-> s.popup, rid |-> rid,
   ent |-> NoEntry, sess |-> NoSession, idx |-> 0, pw |-> <<>>,
   vault |-> NoVault, list |-> <<>>, fresh |-> FALSE, pend |-> {},
   out |-> <<>>, att |-> 0,
   t |-> 0, build |-> NoTx, hook |-> "", res |-> "", resp |-> ""]

\* the handler returns resp; its locals are dropped
Finished(hd, resp) ==
  [Handler(hd.type, [popup |-> hd.popup], hd.rid) EXCEPT
     !.res = hd.res, !.resp = resp]

Idle == Handler("", PopupSender, 0)

InFlight == {i \in DOMAIN h : h[i].pc # "done"}

\* the handlers of hnew that have returned leave their slot; the response of
\* the one that returned in this step is kept in last
Commit(hnew) ==
  LET returned == {i \in DOMAIN hnew : hnew[i].pc = "done" /\ hnew[i].type # ""} IN
  /\ h' = [i \in DOMAIN hnew |-> IF i \in returned THEN Idle ELSE hnew[i]]
  /\ last' = IF returned = {} THEN last ELSE hnew[CHOOSE i \in returned : TRUE]

FreeSlot == CHOOSE i \in DOMAIN h \ InFlight : \A j \in DOMAIN h \ InFlight : i <= j

isPopupSender(s) == s.popup

AuthorizedAlways(s, type) == TRUE
Authorized(s, type) == isPopupSender(s) \/ type \in CONTENT_SCRIPT_ALLOWLIST

Expired(t, e) == t - e.createdAt > PENDING_LOGIN_TTL_MS

purgeExpiredRequestsOff(t, m) == m
purgeExpiredRequests(t, m) ==
  [id \in {i \in DOMAIN m : ~Expired(t, m[i])} |-> m[id]]

Remove(m, id) == [k \in DOMAIN m \ {id} |-> m[k]]

Put(m, id, v) == [k \in DOMAIN m \cup {id} |-> IF k = id THEN v ELSE m[k]]

Lookup(m, k, d) == IF k \in DOMAIN m THEN m[k] ELSE d

PL == purgeExpiredRequests(now, pendingLogins)
PS == purgeExpiredRequests(now, pendingSends)

\* handleMessage is entered: both registries are purged, then the handler hd
\* runs up to its first await
Receive(hd) ==
  /\ DOMAIN h \ InFlight # {}
  /\ Commit([h EXCEPT ![FreeSlot] = hd])
  /\ msgs' = msgs + 1
  /\ expiredIds' = expiredIds \cup (DOMAIN pendingLogins \ DOMAIN PL)
                               \cup (DOMAIN pendingSends \ DOMAIN PS)
  /\ UNCHANGED <<tx, broadcasts, moduleVars>>
  /\ now' = now

\* chrome.tabs.sendMessage(tabId, {type, success, _reqId}) guarded by `if (tabId)`
NotifyNever(kind, id, e, success) == tabMsgs
Notify(kind, id, e, success) ==
  IF e.tabId # 0
  THEN Append(tabMsgs, [tab |-> e.tabId, kind |-> kind, id |-> id,
                        success |-> success, reqId |-> e.reqId])
  ELSE tabMsgs

EntryOf(p) == [tabId |-> p.tabId, origin |-> p.origin, reqId |-> p.reqId]

\* the handler whose message the step received: it has either returned
\* already or occupies the slot that was free
Arrived == IF h' = h THEN last' ELSE h'[FreeSlot]

\* Date.now() - lastLogin < POPUP_COOLDOWN_MS
inCooldownOff(t, lastAt) == FALSE
inCooldown(t, lastAt) == t - lastAt < POPUP_COOLDOWN_MS

\* pendingLogins.size >= MAX_PENDING_LOGINS (the same constant bounds the sends)
atCapacityOffByOne(m) == Cardinality(DOMAIN m) > MAX_PENDING_LOGINS
atCapacity(m) == Cardinality(DOMAIN m) >= MAX_PENDING_LOGINS

\* pending.signatureVerified !== true is what DAPP_APPROVE refuses
isVerifiedUnlessFalse(e) == e.signatureVerified # "false"
isVerified(e) == e.signatureVerified = "true"

\* pendingLogins.delete(requestId) right after the lookup
deleteLoginSkipped(pl, id) == pl
deleteLogin(pl, id) == Remove(pl, id)

\* pendingSends.delete(requestId) right after the lookup
deleteSendSkipped(ps, id) == ps
deleteSend(ps, id) == Remove(ps, id)

\* ------------------------------------------------- handleMessage: the gate
\* Every message first purges both registries, then passes the sender check.
Unauthorized(type, s) ==
  /\ ~Authorized(s, type)
  /\ pendingLogins' = PL
  /\ pendingSends' = PS
  /\ Receive(Finished(Handler(type, s, 0), "Unauthorized sender"))
  /\ UNCHANGED <<restVars, walletVars>>

Ping(s) ==
  /\ Authorized(s, "PING")
  /\ pendingLogins' = PL
  /\ pendingSends' = PS
  /\ Receive(Finished(Handler("PING", s, 0), "ok"))
  /\ UNCHANGED <<restVars, walletVars>>

\* ------------------------------------------------------- dApp login handlers
\* the entry is left undefined while it is verified
markUnverifiedSkipped(pl, rid) == pl
\* `req.signatureVerified = false` ahead of the await
markUnverified(pl, rid) == [pl EXCEPT ![rid].signatureVerified = "false"]

GetPendingLogin(s, rid) ==
  LET pl == PL
      hd == Handler("GET_PENDING_LOGIN", s, rid)
  IN
  /\ Authorized(s, "GET_PENDING_LOGIN")
  /\ pendingSends' = PS
  /\ IF rid \notin DOMAIN pl
     THEN /\ pendingLogins' = pl
          /\ Receive(Finished(hd, "No pending login request"))
     ELSE IF pl[rid].signatureVerified = "undefined"
     THEN /\ pendingLogins' = markUnverified(pl, rid)
          /\ IF pl[rid].requestingId
             THEN Receive([hd EXCEPT !.pc = "verify"])
             ELSE Receive([Finished(hd, "ok") EXCEPT !.res = "false"])
     ELSE /\ pendingLogins' = pl
          /\ Receive([Finished(hd, "ok") EXCEPT
                               !.res = pl[rid].signatureVerified])
  /\ UNCHANGED <<restVars, walletVars>>

\* await verifyChallengeSignature(req.uri, req.requestingId) returns
VerifyDone(i, result) ==
  LET v == IF result THEN "true" ELSE "false" IN
  /\ h[i].type = "GET_PENDING_LOGIN" /\ h[i].pc = "verify"
  /\ pendingLogins' =
       IF h[i].rid \in DOMAIN pendingLogins
       THEN [pendingLogins EXCEPT ![h[i].rid].signatureVerified = v]
       ELSE pendingLogins
  /\ verifyLog' = verifyLog \cup {<<h[i].rid, result>>}
  /\ Commit([h EXCEPT ![i] = [Finished(h[i], "ok") EXCEPT !.res = v]])
  /\ UNCHANGED <<stepVars, pendingSends, expiredIds, lastPopupByOrigin, nextId,
                 windows, tabMsgs, claims, walletVars>>

\* const CHALLENGE_MAX_AGE_SEC = 300, and the 60 of `createdAt > nowSec + 60`
CHALLENGE_MAX_AGE_SEC == 300
MAX_FUTURE_SEC == 60

\* Math.floor(Date.now() / 1000)
nowSec(t) == t \div 1000

\* lines 1005-1017: the message the challenge timestamp is refused with, ""
\* when it is accepted; createdAt 0: request.challenge.created_at is absent
timestampUnchecked(t, createdAt) == ""
timestampError(t, createdAt) ==
  IF createdAt <= 0 THEN "Challenge missing timestamp"
  ELSE IF createdAt > nowSec(t) + MAX_FUTURE_SEC
  THEN "Challenge timestamp is in the future"
  ELSE IF nowSec(t) - createdAt > CHALLENGE_MAX_AGE_SEC
  THEN "Challenge expired"
  ELSE ""

\* p: the deep link as parsed: uriOk (it parses), createdAt (the challenge
\* timestamp in seconds), requestingId (signing_id present)
DappLoginDeeplink(s, p) ==
  LET pl == PL
      hd == Handler("DAPP_LOGIN_DEEPLINK", s, 0)
      lastLogin == Lookup(lastPopupByOrigin, s.origin, 0)
      pending == [tabId |-> s.tab, origin |-> s.origin, windowId |-> 0,
                  requestingId |-> p.requestingId, challengeAt |-> p.createdAt,
                  signatureVerified |-> "undefined",
                  reqId |-> 100 + nextId, createdAt |-> now]
  IN
  /\ Authorized(s, "DAPP_LOGIN_DEEPLINK")
  /\ pendingSends' = PS
  /\ IF ~p.uriOk
     THEN /\ Receive(Finished(hd, "Invalid deeplink"))
          /\ pendingLogins' = pl
          /\ UNCHANGED <<lastPopupByOrigin, nextId>>
     ELSE IF timestampError(now, p.createdAt) # ""
     THEN /\ Receive(Finished(hd, timestampError(now, p.createdAt)))
          /\ pendingLogins' = pl
          /\ UNCHANGED <<lastPopupByOrigin, nextId>>
     ELSE IF ~s.hasUrl
     THEN /\ Receive(Finished(hd, "Cannot verify request origin"))
          /\ pendingLogins' = pl
          /\ UNCHANGED <<lastPopupByOrigin, nextId>>
     ELSE IF inCooldown(now, lastLogin)
     THEN /\ Receive(Finished(hd, "Please wait before making another request"))
          /\ pendingLogins' = pl
          /\ UNCHANGED <<lastPopupByOrigin, nextId>>
     ELSE IF atCapacity(pl)
     THEN /\ Receive(Finished(hd, "Too many pending login requests"))
          /\ pendingLogins' = pl
          /\ UNCHANGED <<lastPopupByOrigin, nextId>>
     ELSE /\ pendingLogins' = Put(pl, nextId, pending)
          /\ lastPopupByOrigin' = Put(lastPopupByOrigin, s.origin, now)
          /\ nextId' = nextId + 1
          /\ Receive([hd EXCEPT !.pc = "window", !.rid = nextId])
  /\ UNCHANGED <<windows, tabMsgs, verifyLog, claims, walletVars>>

\* await chrome.windows.create(...) returns the popup; hasId: popup.id != null
WindowCreated(i, hasId) ==
  LET id == h[i].rid
      isLogin == h[i].type = "DAPP_LOGIN_DEEPLINK"
  IN
  /\ h[i].type \in {"DAPP_LOGIN_DEEPLINK", "DAPP_SEND_REQUEST"}
  /\ h[i].pc = "window"
  /\ windows' = IF hasId THEN windows \cup {id} ELSE windows
  /\ pendingLogins' =
       IF isLogin /\ hasId /\ id \in DOMAIN pendingLogins
       THEN [pendingLogins EXCEPT ![id].windowId = id]
       ELSE pendingLogins
  /\ pendingSends' =
       IF ~isLogin /\ hasId /\ id \in DOMAIN pendingSends
       THEN [pendingSends EXCEPT ![id].windowId = id]
       ELSE pendingSends
  /\ Commit([h EXCEPT ![i] = Finished(h[i], "ok")])
  /\ UNCHANGED <<stepVars, expiredIds, lastPopupByOrigin, nextId, tabMsgs,
                 verifyLog, claims, walletVars>>

DappApprove(s, rid) ==
  LET pl == PL
      hd == Handler("DAPP_APPROVE", s, rid)
  IN
  /\ Authorized(s, "DAPP_APPROVE")
  /\ pendingSends' = PS
  /\ IF rid \notin DOMAIN pl
     THEN /\ pendingLogins' = pl
          /\ claims' = claims
          /\ Receive(Finished(hd, "No pending login request"))
     ELSE IF ~isVerified(pl[rid])
     THEN /\ pendingLogins' = pl
          /\ claims' = claims
          /\ Receive(Finished(hd, "Cannot approve: challenge signature not verified"))
     ELSE /\ pendingLogins' = deleteLogin(pl, rid)
          /\ claims' = Put(claims, rid, Lookup(claims, rid, 0) + 1)
          /\ Receive([hd EXCEPT !.pc = "session", !.ent = EntryOf(pl[rid])])
  /\ UNCHANGED <<lastPopupByOrigin, nextId, windows, tabMsgs, verifyLog,
                 walletVars>>

\* await getSession() returns, in DAPP_APPROVE and DAPP_APPROVE_SEND;
\* amtOk: the stored coin amount converts to a positive safe integer
ApproveSession(i, amtOk) ==
  /\ h[i].type \in {"DAPP_APPROVE", "DAPP_APPROVE_SEND"}
  /\ h[i].pc = "session"
  /\ Commit([h EXCEPT ![i] =
             IF ~session.present THEN Finished(h[i], "Wallet is locked")
             ELSE IF h[i].type = "DAPP_APPROVE"
                  THEN [h[i] EXCEPT !.pc = "height", !.sess = session]
                  ELSE IF ~amtOk
                       THEN Finished(h[i], "Amount out of range")
                       ELSE [h[i] EXCEPT !.pc = "build", !.sess = session]])
  /\ UNCHANGED <<stepVars, consentVars, walletVars>>

\* ------------------------------------------------------ webhook URL checks
\* new URL(u) for the URLs of the model: the protocol and the hostname, the
\* hostname as the sequence of its dot-separated labels (an IPv6 hostname is
\* one bracketed label); ok = FALSE where the constructor throws.  The
\* origins a and b are https://a.example and https://b.example.
Parsed(protocol, hostname) ==
  [ok |-> TRUE, protocol |-> protocol, hostname |-> hostname]

URL(u) ==
  CASE u \in {"a", "https://a.example/hook"} -> Parsed("https:", <<"a", "example">>)
    [] u \in {"b", "https://b.example/hook"} -> Parsed("https:", <<"b", "example">>)
    [] u = "https://api.a.example/hook" -> Parsed("https:", <<"api", "a", "example">>)
    [] u = "https://nota.example/hook" -> Parsed("https:", <<"nota", "example">>)
    [] u = "http://a.example/hook" -> Parsed("http:", <<"a", "example">>)
    [] u = "https://localhost/hook" -> Parsed("https:", <<"localhost">>)
    [] u = "http://localhost:8000" -> Parsed("http:", <<"localhost">>)
    [] u = "https://intranet/hook" -> Parsed("https:", <<"intranet">>)
    [] u = "http://intranet" -> Parsed("http:", <<"intranet">>)
    [] u = "https://[::1]/hook" -> Parsed("https:", <<"[::1]">>)
    [] u = "http://[::1]:8000" -> Parsed("http:", <<"[::1]">>)
    [] u = "https://[fd00::1]/hook" -> Parsed("https:", <<"[fd00::1]">>)
    [] u = "https://127.0.0.1/hook" -> Parsed("https:", <<"127", "0", "0", "1">>)
    [] u = "http://127.0.0.1:8000" -> Parsed("http:", <<"127", "0", "0", "1">>)
    [] u = "https://127.0.0.2/hook" -> Parsed("https:", <<"127", "0", "0", "2">>)
    [] u = "http://127.0.0.2:8000" -> Parsed("http:", <<"127", "0", "0", "2">>)
    [] u = "https://0.0.0.0/hook" -> Parsed("https:", <<"0", "0", "0", "0">>)
    [] u = "https://0.1.2.3/hook" -> Parsed("https:", <<"0", "1", "2", "3">>)
    [] u = "https://10.0.0.5/hook" -> Parsed("https:", <<"10", "0", "0", "5">>)
    [] u = "https://10.0.0.5" -> Parsed("https:", <<"10", "0", "0", "5">>)
    [] u = "https://172.16.0.1/hook" -> Parsed("https:", <<"172", "16", "0", "1">>)
    [] u = "https://172.31.0.1/hook" -> Parsed("https:", <<"172", "31", "0", "1">>)
    [] u = "https://172.32.0.1/hook" -> Parsed("https:", <<"172", "32", "0", "1">>)
    [] u = "https://172.32.0.1" -> Parsed("https:", <<"172", "32", "0", "1">>)
    [] u = "https://192.168.1.1/hook" -> Parsed("https:", <<"192", "168", "1", "1">>)
    [] u = "https://169.254.169.254/hook" -> Parsed("https:", <<"169", "254", "169", "254">>)
    [] u = "https://100.64.0.1/hook" -> Parsed("https:", <<"100", "64", "0", "1">>)
    [] u = "https://100.127.0.1/hook" -> Parsed("https:", <<"100", "127", "0", "1">>)
    [] u = "https://100.128.0.1/hook" -> Parsed("https:", <<"100", "128", "0", "1">>)
    [] u = "https://100.128.0.1" -> Parsed("https:", <<"100", "128", "0", "1">>)
    [] u = "https://192.0.2.7/hook" -> Parsed("https:", <<"192", "0", "2", "7">>)
    [] u = "https://192.0.2.7" -> Parsed("https:", <<"192", "0", "2", "7">>)
    [] u = "https://198.18.0.1/hook" -> Parsed("https:", <<"198", "18", "0", "1">>)
    [] u = "https://198.51.100.7/hook" -> Parsed("https:", <<"198", "51", "100", "7">>)
    [] u = "https://198.51.100.7" -> Parsed("https:", <<"198", "51", "100", "7">>)
    [] u = "https://203.0.113.7/hook" -> Parsed("https:", <<"203", "0", "113", "7">>)
    [] OTHER -> [ok |-> FALSE, protocol |-> "", hostname |-> <<>>]

\* the decimal numerals of a..b
Decimals(a, b) == {ToString(n) : n \in a..b}

\* h.startsWith(prefix + '.')
startsWith(hostname, prefix) ==
  /\ Len(hostname) > Len(prefix)
  /\ SubSeq(hostname, 1, Len(prefix)) = prefix

\* h.includes(':'): the hostnames with a colon are the bracketed IPv6 ones
includesColon(hostname) ==
  \E k \in DOMAIN hostname : hostname[k] \in {"[::1]", "[fd00::1]"}

isValidWebhookUrl(url) ==
  LET parsed == URL(url)
      hn == parsed.hostname
  IN
  /\ parsed.ok
  /\ parsed.protocol = "https:"
  /\ hn \notin {<<"localhost">>, <<"127", "0", "0", "1">>, <<"0", "0", "0", "0">>}
  /\ ~startsWith(hn, <<"10">>)
  /\ ~startsWith(hn, <<"192", "168">>)
  /\ ~\E n \in Decimals(16, 31) : startsWith(hn, <<"172", n>>)
  /\ ~startsWith(hn, <<"169", "254">>)
  /\ ~\E n \in Decimals(64, 127) : startsWith(hn, <<"100", n>>)
  /\ ~startsWith(hn, <<"0">>)
  /\ ~startsWith(hn, <<"198", "18">>) /\ ~startsWith(hn, <<"198", "19">>)
  /\ ~startsWith(hn, <<"198", "51", "100">>)
  /\ ~startsWith(hn, <<"203", "0", "113">>)
  /\ ~includesColon(hn)
  /\ Len(hn) >= 2

\* webhookHost.endsWith('.' + originHost)
endsWith(webhookHost, originHost) ==
  /\ Len(webhookHost) > Len(originHost)
  /\ SubSeq(webhookHost, Len(webhookHost) - Len(originHost) + 1, Len(webhookHost))
       = originHost

\* the checks of DAPP_APPROVE between the signing and the POST: the failure
\* returned, "" when the POST is made.  hook: webhookUri?.uri, "" when absent
webhookError(hook, origin) ==
  IF hook = ""
  THEN "No webhook URI found in challenge"
  ELSE IF ~isValidWebhookUrl(hook)
  THEN "Webhook URL must be HTTPS and not a private/local address"
  ELSE IF origin = ""
  THEN ""
  ELSE IF ~URL(origin).ok
  THEN "Invalid webhook or origin URL"
  ELSE IF /\ URL(hook).hostname # URL(origin).hostname
          /\ ~endsWith(URL(hook).hostname, URL(origin).hostname)
  THEN "Webhook domain does not match requesting origin"
  ELSE ""

\* await electrum.getCurrentBlock() returns or throws; then the response is
\* signed and the webhook URL of the stored deep link (hook) is checked
ApproveHeight(i, fetched, hook) ==
  /\ h[i].type = "DAPP_APPROVE" /\ h[i].pc = "height"
  /\ IF ~fetched
     THEN /\ tabMsgs' = Notify("DAPP_RESPONSE", h[i].rid, h[i].ent, FALSE)
          /\ Commit([h EXCEPT ![i] = Finished(h[i], "Login approval failed")])
     ELSE IF webhookError(hook, h[i].ent.origin) # ""
     THEN /\ tabMsgs' = tabMsgs
          /\ Commit([h EXCEPT ![i] = Finished(h[i], webhookError(hook, h[i].ent.origin))])
     ELSE /\ tabMsgs' = tabMsgs
          /\ Commit([h EXCEPT ![i].pc = "post", ![i].hook = hook])
  /\ UNCHANGED <<stepVars, pendingLogins, pendingSends, expiredIds,
                 lastPopupByOrigin, nextId, windows, verifyLog, claims, walletVars>>

\* await fetch(webhookUri.uri, POST) returns ("ok", "http": !postResult.ok)
\* or throws
ApprovePost(i, out) ==
  /\ h[i].type = "DAPP_APPROVE" /\ h[i].pc = "post"
  /\ CASE out = "ok" ->
            /\ tabMsgs' = Notify("DAPP_RESPONSE", h[i].rid, h[i].ent, TRUE)
            /\ Commit([h EXCEPT ![i] = Finished(h[i], "ok")])
       [] out = "http" ->
            /\ tabMsgs' = tabMsgs
            /\ Commit([h EXCEPT ![i] = Finished(h[i], "Webhook POST failed")])
       [] OTHER ->
            /\ tabMsgs' = Notify("DAPP_RESPONSE", h[i].rid, h[i].ent, FALSE)
            /\ Commit([h EXCEPT ![i] = Finished(h[i], "Login approval failed")])
  /\ UNCHANGED <<stepVars, pendingLogins, pendingSends, expiredIds,
                 lastPopupByOrigin, nextId, windows, verifyLog, claims, walletVars>>

\* the rejected entry stays in the registry
rejectLoginKept(pl, rid) == pl
\* DAPP_REJECT: `pendingLogins.delete(rejectId)`
rejectLogin(pl, rid) == Remove(pl, rid)

DappReject(s, rid) ==
  LET pl == PL IN
  /\ Authorized(s, "DAPP_REJECT")
  /\ pendingSends' = PS
  /\ tabMsgs' = IF rid \in DOMAIN pl
                THEN Notify("DAPP_RESPONSE", rid, EntryOf(pl[rid]), FALSE)
                ELSE tabMsgs
  /\ pendingLogins' = rejectLogin(pl, rid)
  /\ Receive(Finished(Handler("DAPP_REJECT", s, rid), "ok"))
  /\ UNCHANGED <<lastPopupByOrigin, nextId, windows, verifyLog, claims, walletVars>>

\* -------------------------------------------------------- dApp send handlers
\* p: the payload: valid (to/amount/currency pass the checks)
DappSendRequest(s, p) ==
  LET ps == PS
      hd == Handler("DAPP_SEND_REQUEST", s, 0)
      lastSend == Lookup(lastPopupByOrigin, s.origin, 0)
      pending == [tabId |-> s.tab, origin |-> s.origin, windowId |-> 0,
                  reqId |-> 100 + nextId, createdAt |-> now]
  IN
  /\ Authorized(s, "DAPP_SEND_REQUEST")
  /\ pendingLogins' = PL
  /\ IF ~p.valid
     THEN /\ Receive(Finished(hd, "Invalid send request"))
          /\ pendingSends' = ps
          /\ UNCHANGED <<lastPopupByOrigin, nextId>>
     ELSE IF ~s.hasUrl
     THEN /\ Receive(Finished(hd, "Cannot verify request origin"))
          /\ pendingSends' = ps
          /\ UNCHANGED <<lastPopupByOrigin, nextId>>
     ELSE IF inCooldown(now, lastSend)
     THEN /\ Receive(Finished(hd, "Please wait before making another request"))
          /\ pendingSends' = ps
          /\ UNCHANGED <<lastPopupByOrigin, nextId>>
     ELSE IF atCapacity(ps)
     THEN /\ Receive(Finished(hd, "Too many pending send requests"))
          /\ pendingSends' = ps
          /\ UNCHANGED <<lastPopupByOrigin, nextId>>
     ELSE /\ pendingSends' = Put(ps, nextId, pending)
          /\ lastPopupByOrigin' = Put(lastPopupByOrigin, s.origin, now)
          /\ nextId' = nextId + 1
          /\ Receive([hd EXCEPT !.pc = "window", !.rid = nextId])
  /\ UNCHANGED <<windows, tabMsgs, verifyLog, claims, walletVars>>

GetPendingSend(s, rid) ==
  LET ps == PS IN
  /\ Authorized(s, "GET_PENDING_SEND")
  /\ pendingLogins' = PL
  /\ pendingSends' = ps
  /\ Receive(Finished(Handler("GET_PENDING_SEND", s, rid),
                             IF rid \in DOMAIN ps THEN "ok"
                             ELSE "No pending send request"))
  /\ UNCHANGED <<restVars, walletVars>>

DappApproveSend(s, rid) ==
  LET ps == PS
      hd == Handler("DAPP_APPROVE_SEND", s, rid)
  IN
  /\ Authorized(s, "DAPP_APPROVE_SEND")
  /\ pendingLogins' = PL
  /\ IF rid \notin DOMAIN ps
     THEN /\ pendingSends' = ps
          /\ claims' = claims
          /\ Receive(Finished(hd, "No pending send request"))
     ELSE /\ pendingSends' = deleteSend(ps, rid)
          /\ claims' = Put(claims, rid, Lookup(claims, rid, 0) + 1)
          /\ Receive([hd EXCEPT !.pc = "session", !.ent = EntryOf(ps[rid])])
  /\ UNCHANGED <<lastPopupByOrigin, nextId, windows, tabMsgs, verifyLog,
                 walletVars>>

\* the UTXO fetch and the build return or throw; r: the builder at its return
\* (buildTransaction; getAddressUtxos + buildCurrencyTransaction return or
\* throw alike)
ApproveBuild(i, r) ==
  /\ h[i].type = "DAPP_APPROVE_SEND" /\ h[i].pc = "build"
  /\ IF hasRawTx(r)
     THEN /\ tabMsgs' = tabMsgs
          /\ Commit([h EXCEPT ![i].pc = "broadcast", ![i].build = r])
     ELSE /\ tabMsgs' = Notify("DAPP_SEND_RESPONSE", h[i].rid, h[i].ent, FALSE)
          /\ Commit([h EXCEPT ![i] = Finished(h[i], "Transaction failed")])
  /\ UNCHANGED <<stepVars, pendingLogins, pendingSends, expiredIds,
                 lastPopupByOrigin, nextId, windows, verifyLog, claims, walletVars>>

\* await broadcastTransaction(rawTx) returns the txid or throws
ApproveBroadcast(i, sent) ==
  /\ h[i].type = "DAPP_APPROVE_SEND" /\ h[i].pc = "broadcast"
  /\ broadcasts' = broadcasts \cup {h[i].build}
  /\ tabMsgs' = Notify("DAPP_SEND_RESPONSE", h[i].rid, h[i].ent, sent)
  /\ Commit([h EXCEPT ![i] = Finished(h[i], IF sent THEN "ok" ELSE "Transaction failed")])
  /\ UNCHANGED <<now, msgs, tx, moduleVars, pendingLogins, pendingSends, expiredIds,
                 lastPopupByOrigin, nextId, windows, verifyLog, claims, walletVars>>

DappRejectSend(s, rid) ==
  LET ps == PS IN
  /\ Authorized(s, "DAPP_REJECT_SEND")
  /\ pendingLogins' = PL
  /\ tabMsgs' = IF rid \in DOMAIN ps
                THEN Notify("DAPP_SEND_RESPONSE", rid, EntryOf(ps[rid]), FALSE)
                ELSE tabMsgs
  /\ pendingSends' = Remove(ps, rid)
  /\ Receive(Finished(Handler("DAPP_REJECT_SEND", s, rid), "ok"))
  /\ UNCHANGED <<lastPopupByOrigin, nextId, windows, verifyLog, claims, walletVars>>

\* chrome.windows.onRemoved listener: every login, then every send, whose
\* windowId is the closed window is reported to its tab and deleted.  A
\* window is created for one request, so at most one entry matches.
WindowRemoved(w) ==
  LET ls == {id \in DOMAIN pendingLogins : pendingLogins[id].windowId = w}
      ss == {id \in DOMAIN pendingSends : pendingSends[id].windowId = w}
  IN
  /\ w \in windows
  /\ windows' = windows \ {w}
  /\ tabMsgs' = IF ls # {}
                THEN Notify("DAPP_RESPONSE", w, EntryOf(pendingLogins[w]), FALSE)
                ELSE IF ss # {}
                THEN Notify("DAPP_SEND_RESPONSE", w, EntryOf(pendingSends[w]), FALSE)
                ELSE tabMsgs
  /\ pendingLogins' = [id \in DOMAIN pendingLogins \ ls |-> pendingLogins[id]]
  /\ pendingSends' = [id \in DOMAIN pendingSends \ ss |-> pendingSends[id]]
  /\ UNCHANGED <<stepVars, expiredIds, lastPopupByOrigin, nextId, verifyLog,
                 claims, walletVars, last, h>>

\* ------------------------------------------------- the transaction builders
\* src/src/core/transaction.ts.  A UTXO is its value in satoshis; an output is
\* [to, value] with to one of "recipient", "cc" (the reserve-transfer script),
\* "sender" and "other".
DUST_THRESHOLD == 1000
MIN_FEE == 10000
\* the bound of `for (let i = 0; i < 5; i++)`
FeeLoopLimit == 5

Max(a, b) == IF a >= b THEN a ELSE b

\* Math.round(n / d) for n >= 0, d > 0: halves go up
Round(n, d) == (2 * n + d) \div (2 * d)

RECURSIVE SumSeq(_)
SumSeq(s) == IF s = <<>> THEN 0 ELSE Head(s) + SumSeq(Tail(s))

\* [...utxos].sort((a, b) => b.value - a.value): stable, largest first
RECURSIVE InsertDesc(_, _)
InsertDesc(v, s) ==
  IF s = <<>> THEN <<v>>
  ELSE IF Head(s) >= v THEN <<Head(s)>> \o InsertDesc(v, Tail(s))
  ELSE <<v>> \o s

\* the list is taken in the order listUnspent gave it
Unsorted(s) == s

RECURSIVE SortDesc(_)
SortDesc(s) ==
  IF s = <<>> THEN <<>>
  ELSE InsertDesc(s[Len(s)], SortDesc(SubSeq(s, 1, Len(s) - 1)))

estimateTxSize(inputCount, outputCount) == inputCount * 148 + outputCount * 34 + 10

\* estimateConvTxSize with ccOutputSize = scriptBuf.length + 8
estimateConvTxSize(inputCount, scriptLen) ==
  inputCount * 148 + (scriptLen + 8) + 34 + 10

\* the test `total >= targetSat` of selectUTXOs
coversStrictly(total, targetSat) == total > targetSat
covers(total, targetSat) == total >= targetSat

\* the for loop of selectUTXOs: how many of sorted are pushed
RECURSIVE SelectCount(_, _, _)
SelectCount(sorted, total, targetSat) ==
  IF sorted = <<>> THEN 0
  ELSE IF covers(total + Head(sorted), targetSat) THEN 1
  ELSE 1 + SelectCount(Tail(sorted), total + Head(sorted), targetSat)

\* ok = FALSE: the Insufficient funds error is thrown
selectUTXOs(utxos, targetSat) ==
  LET sorted == SortDesc(utxos)
      selected == SubSeq(sorted, 1, SelectCount(sorted, 0, targetSat))
      total == SumSeq(selected)
  IN [ok |-> covers(total, targetSat), selected |-> selected, total |-> total]

\* const TRANSFER_FEE = direct ? 10000 : 20000
TRANSFER_FEE(direct) == IF direct THEN 10000 ELSE 20000

Builders == {"buildTransaction", "buildConversionTransaction", "simulateTransaction"}

\* a builder is called; utxos, feeRate: what listUnspent and estimateFee will
\* return; scriptLen: scriptBuf.length; decoded: how the built transaction
\* decodes ("same", or the field that differs from what was added)
BuilderCall(fn, direct, addrOk, amount, utxos, feeRate, scriptLen, decoded) ==
  [NoTx EXCEPT !.fn = fn, !.pc = "start", !.direct = direct, !.addrOk = addrOk,
               !.amount = amount, !.utxos = utxos, !.feeRate = feeRate,
               !.scriptLen = scriptLen, !.decoded = decoded]

\* the builder throws (simulateTransaction: returns valid: false)
Thrown(t, err) == [t EXCEPT !.pc = "done", !.err = err, !.outs = <<>>]

\* the value of output 0: amountSat, or amountSat + TRANSFER_FEE
outputValue(t) ==
  IF t.fn = "buildConversionTransaction"
  THEN t.amount + TRANSFER_FEE(t.direct) ELSE t.amount

\* the simulation sizes the transaction without its change output
outputCountOfSimulationOne(fn) == IF fn = "simulateTransaction" THEN 1 ELSE 2
\* `const outputCount = 2` of simulateTransaction and of buildTransaction
outputCount(fn) == 2

\* newFee of one iteration of the fee-fitting loop
newFee(t) ==
  LET size == IF t.fn = "buildConversionTransaction"
              THEN estimateConvTxSize(Len(t.selected), t.scriptLen)
              ELSE estimateTxSize(Len(t.selected), outputCount(t.fn))
  IN Max(Round(size * t.feeRate, 1000), MIN_FEE)

\* from the call to the first selectUTXOs
StartStep(t) ==
  LET sel == selectUTXOs(t.utxos, outputValue(t) + MIN_FEE) IN
  IF t.amount <= 0 THEN Thrown(t, "Invalid amount")
  ELSE IF t.fn # "buildConversionTransaction" /\ ~t.addrOk
  THEN Thrown(t, "Invalid recipient address")
  ELSE IF t.utxos = <<>> THEN Thrown(t, "No UTXOs available")
  ELSE IF ~sel.ok THEN Thrown([t EXCEPT !.fee = MIN_FEE], "Insufficient funds")
  ELSE [t EXCEPT !.pc = "loop", !.fee = MIN_FEE,
                 !.selected = sel.selected, !.total = sel.total]

\* the loop test `i < 5` fails
loopEndedAfterSix(i) == i >= FeeLoopLimit + 1
loopEnded(i) == i >= FeeLoopLimit

\* the loop test and one run of the loop body
LoopStep(t) ==
  LET fee == newFee(t)
      sel == selectUTXOs(t.utxos, outputValue(t) + fee)
  IN
  IF loopEnded(t.i) THEN [t EXCEPT !.pc = "change"]
  ELSE IF fee <= t.fee THEN [t EXCEPT !.pc = "change", !.iters = t.iters + 1]
  ELSE IF ~sel.ok
  THEN Thrown([t EXCEPT !.fee = fee, !.iters = t.iters + 1], "Insufficient funds")
  ELSE [t EXCEPT !.i = t.i + 1, !.iters = t.iters + 1, !.fee = fee,
                 !.selected = sel.selected, !.total = sel.total]

\* the post-build verification passes
verifiedAlways(fn, decoded) == TRUE
verified(fn, decoded) ==
  IF fn = "buildTransaction" THEN decoded \notin {"address", "value"}
  ELSE IF fn = "buildConversionTransaction" THEN decoded \notin {"value", "change"}
  ELSE TRUE

\* change above the dust threshold gets an output of its own
keepsChangeAlways(change) == TRUE
keepsChange(change) == change > DUST_THRESHOLD

\* the fee of the transaction: change that gets no output is added to it
effectiveFeeUnfolded(fee, change) == fee
effectiveFee(fee, change) == IF keepsChange(change) THEN fee ELSE fee + change

\* tx.outs as decoded from the built transaction
Decoded(outs, decoded) ==
  [k \in DOMAIN outs |->
     IF k = 1 /\ decoded = "address" THEN [outs[k] EXCEPT !.to = "other"]
     ELSE IF k = 1 /\ decoded = "value" THEN [outs[k] EXCEPT !.value = @ + 1]
     ELSE IF k = 2 /\ decoded = "change" THEN [outs[k] EXCEPT !.to = "other"]
     ELSE outs[k]]

\* from the change to the return
FinishStep(t) ==
  LET change == t.total - outputValue(t) - t.fee
      first == [to |-> IF t.fn = "buildConversionTransaction" THEN "cc"
                       ELSE "recipient",
                value |-> outputValue(t)]
      added == IF keepsChange(change)
               THEN <<first, [to |-> "sender", value |-> change]>>
               ELSE <<first>>
      built == Decoded(added, t.decoded)
  IN
  IF change < 0 THEN Thrown(t, "Insufficient funds after fee")
  ELSE IF t.fn # "simulateTransaction" /\ built # added /\ ~verified(t.fn, t.decoded)
  THEN Thrown(t, "TX verification failed")
  ELSE [t EXCEPT !.pc = "done",
                 !.fee = effectiveFee(t.fee, change),
                 !.outs = IF t.fn = "simulateTransaction" THEN added ELSE built]

\* a builder from its call to its return
RECURSIVE RunBuilder(_)
RunBuilder(t) ==
  CASE t.pc = "start" -> RunBuilder(StartStep(t))
    [] t.pc = "loop" -> RunBuilder(LoopStep(t))
    [] t.pc = "change" -> RunBuilder(FinishStep(t))
    [] OTHER -> t

\* what the build of an approved send comes to: a transaction of one input, or
\* No UTXOs available
ApprovalBuilds ==
  {RunBuilder(BuilderCall("buildTransaction", FALSE, TRUE, 5000, u, 0, 0, "same")) :
     u \in {<<>>, <<15000>>}}

\* a builder is called
BuilderCalled(call) ==
  /\ tx.pc = "idle"
  /\ tx' = call
  /\ UNCHANGED <<now, msgs, broadcasts, moduleVars, consentVars, walletVars, last, h>>

\* the steps of the builder that is running
BuilderStart ==
  /\ tx.pc = "start"
  /\ tx' = StartStep(tx)
  /\ UNCHANGED <<now, msgs, broadcasts, moduleVars, consentVars, walletVars, last, h>>

FeeIteration ==
  /\ tx.pc = "loop"
  /\ tx' = LoopStep(tx)
  /\ UNCHANGED <<now, msgs, broadcasts, moduleVars, consentVars, walletVars, last, h>>

BuilderFinish ==
  /\ tx.pc = "change"
  /\ tx' = FinishStep(tx)
  /\ UNCHANGED <<now, msgs, broadcasts, moduleVars, consentVars, walletVars, last, h>>

\* --------------------------------------------- the multi-currency builder
\* src/src/core/currency-transaction.ts.  A UTXO is [decodes, type, cur, sat]:
\* whether smarttxs.unpackOutput returns, the type it reports, the amount of
\* the target currency it reports and the native satoshis.  An output is
\* [to, kind, amount], kind "reserve" for an output taken from
\* createUnfundedCurrencyTransfer and "native" for the P2PKH change.
CurrencyCall(toOk, fromOk, amount, utxos) ==
  [fn |-> "buildCurrencyTransaction", pc |-> "start", toOk |-> toOk,
   fromOk |-> fromOk, amount |-> amount, utxos |-> utxos, ccUtxos |-> <<>>,
   p2pkhUtxos |-> <<>>, selectedCC |-> <<>>, totalCurrency |-> 0,
   selectedP2PKH |-> <<>>, totalVrsc |-> 0, outs |-> <<>>, err |-> ""]

\* the UTXO goes to ccUtxos
isCC(u) == u.decodes /\ u.cur # 0

\* the UTXO goes to p2pkhUtxos
isP2PKH(u) ==
  /\ ~isCC(u)
  /\ u.sat > 0
  /\ u.decodes => u.type = "pubkeyhash"

RECURSIVE SumCur(_)
SumCur(s) == IF s = <<>> THEN 0 ELSE Head(s).cur + SumCur(Tail(s))

RECURSIVE SumSat(_)
SumSat(s) == IF s = <<>> THEN 0 ELSE Head(s).sat + SumSat(Tail(s))

\* ccUtxos.sort((a, b) => (b.currencyAmount.gt(a.currencyAmount) ? 1 : -1)):
\* largest first; the comparator puts each of two equal amounts before the
\* other, so their order is the engine's
SortedByCurrency(s) ==
  LET n == Len(s)
      perms == {p \in [1..n -> 1..n] : \A i, j \in 1..n : i # j => p[i] # p[j]}
  IN {[i \in 1..n |-> s[p[i]]] : p \in
        {q \in perms : \A i \in 1..n - 1 : s[q[i]].cur >= s[q[i + 1]].cur}}

\* p2pkhUtxos.sort((a, b) => b.satoshis - a.satoshis): stable, largest first
RECURSIVE InsertBySat(_, _)
InsertBySat(u, s) ==
  IF s = <<>> THEN <<u>>
  ELSE IF Head(s).sat >= u.sat THEN <<Head(s)>> \o InsertBySat(u, Tail(s))
  ELSE <<u>> \o s

RECURSIVE SortBySat(_)
SortBySat(s) ==
  IF s = <<>> THEN <<>>
  ELSE InsertBySat(s[Len(s)], SortBySat(SubSeq(s, 1, Len(s) - 1)))

\* for (const cc of ccUtxos) { push; total += amount; if (gte) break }
RECURSIVE CurrencyCount(_, _, _)
CurrencyCount(sorted, total, target) ==
  IF sorted = <<>> THEN 0
  ELSE IF total + Head(sorted).cur >= target THEN 1
  ELSE 1 + CurrencyCount(Tail(sorted), total + Head(sorted).cur, target)

\* for (const utxo of p2pkhUtxos) { push; totalVrsc += satoshis; if (>=) break }
RECURSIVE NativeCount(_, _)
NativeCount(sorted, total) ==
  IF sorted = <<>> THEN 0
  ELSE IF total + Head(sorted).sat >= MIN_FEE THEN 1
  ELSE 1 + NativeCount(Tail(sorted), total + Head(sorted).sat)

\* the test `totalVrsc < MIN_FEE` that opens the P2PKH selection
needsNativeNever(totalVrsc) == FALSE
needsNative(totalVrsc) == totalVrsc < MIN_FEE

\* the test `!currencyChange.isZero()`
hasCurrencyChangeAlways(currencyChange) == TRUE
hasCurrencyChange(currencyChange) == currencyChange # 0

\* the test `vrscChange > DUST_THRESHOLD`
hasVrscChangeAtDust(vrscChange) == vrscChange >= DUST_THRESHOLD
hasVrscChange(vrscChange) == vrscChange > DUST_THRESHOLD

\* decoded.values: the amount of the target currency a decoded UTXO holds
\* (u.cur: `decoded.values[currencyId]`) and, where the UTXO has the field,
\* the amount of one other currency in the same map (u.other)
values(u, currency) ==
  IF currency = "target" THEN u.cur
  ELSE IF "other" \in DOMAIN u THEN u.other ELSE 0

\* the amount of a currency an output of the built transaction carries: the
\* outputs of createUnfundedCurrencyTransfer are made from
\* `[{currency: currencyId, satoshis, address}]`, the VRSC change is P2PKH
carried(o, currency) ==
  IF o.kind = "reserve" /\ currency = "target" THEN o.amount ELSE 0

\* lines 76-130: the validation, then the UTXOs are decoded and sorted out
CurrencyStartStep(t) ==
  IF t.amount <= 0 THEN Thrown(t, "Invalid amount: must be a positive safe integer")
  ELSE IF ~t.toOk THEN Thrown(t, "Invalid recipient address")
  ELSE IF ~t.fromOk THEN Thrown(t, "Invalid sender address")
  ELSE [t EXCEPT !.pc = "currency", !.ccUtxos = SelectSeq(t.utxos, isCC),
                 !.p2pkhUtxos = SelectSeq(t.utxos, isP2PKH)]

\* lines 132-150, for one outcome `sorted` of the sort
CurrencySelectStep(t, sorted) ==
  LET selectedCC == SubSeq(sorted, 1, CurrencyCount(sorted, 0, t.amount))
      totalCurrency == SumCur(selectedCC)
      u == [t EXCEPT !.ccUtxos = sorted, !.selectedCC = selectedCC,
                     !.totalCurrency = totalCurrency]
  IN IF totalCurrency < t.amount THEN Thrown(u, "Insufficient balance")
     ELSE [u EXCEPT !.pc = "native"]

\* lines 152-172
NativeSelectStep(t) ==
  LET sorted == SortBySat(t.p2pkhUtxos)
      fromCC == SumSat(t.selectedCC)
      selectedP2PKH ==
        IF needsNative(fromCC)
        THEN SubSeq(sorted, 1, NativeCount(sorted, fromCC))
        ELSE <<>>
      totalVrsc == fromCC + SumSat(selectedP2PKH)
      u == [t EXCEPT !.p2pkhUtxos = sorted, !.selectedP2PKH = selectedP2PKH,
                     !.totalVrsc = totalVrsc]
  IN IF totalVrsc < MIN_FEE THEN Thrown(u, "Insufficient VRSC for mining fee")
     ELSE [u EXCEPT !.pc = "outputs"]

\* lines 174-250: the recipient output, the currency change, the VRSC change
CurrencyOutputsStep(t) ==
  LET currencyChange == t.totalCurrency - t.amount
      vrscChange == t.totalVrsc - MIN_FEE
  IN [t EXCEPT
        !.pc = "done",
        !.outs =
          <<[to |-> "recipient", kind |-> "reserve", amount |-> t.amount]>>
          \o (IF hasCurrencyChange(currencyChange)
              THEN <<[to |-> "sender", kind |-> "reserve", amount |-> currencyChange]>>
              ELSE <<>>)
          \o (IF hasVrscChange(vrscChange)
              THEN <<[to |-> "sender", kind |-> "native", amount |-> vrscChange]>>
              ELSE <<>>)]

\* buildCurrencyTransaction is called
CurrencyCalled(call) ==
  /\ tx.pc = "idle"
  /\ tx' = call
  /\ UNCHANGED <<now, msgs, broadcasts, moduleVars, consentVars, walletVars, last, h>>

\* its steps
CurrencyStart ==
  /\ tx.fn = "buildCurrencyTransaction"
  /\ tx.pc = "start"
  /\ tx' = CurrencyStartStep(tx)
  /\ UNCHANGED <<now, msgs, broadcasts, moduleVars, consentVars, walletVars, last, h>>

CurrencySelect ==
  /\ tx.fn = "buildCurrencyTransaction"
  /\ tx.pc = "currency"
  /\ \E sorted \in SortedByCurrency(tx.ccUtxos) : tx' = CurrencySelectStep(tx, sorted)
  /\ UNCHANGED <<now, msgs, broadcasts, moduleVars, consentVars, walletVars, last, h>>

NativeSelect ==
  /\ tx.fn = "buildCurrencyTransaction"
  /\ tx.pc = "native"
  /\ tx' = NativeSelectStep(tx)
  /\ UNCHANGED <<now, msgs, broadcasts, moduleVars, consentVars, walletVars, last, h>>

CurrencyOutputs ==
  /\ tx.fn = "buildCurrencyTransaction"
  /\ tx.pc = "outputs"
  /\ tx' = CurrencyOutputsStep(tx)
  /\ UNCHANGED <<now, msgs, broadcasts, moduleVars, consentVars, walletVars, last, h>>

\* ------------------------------------------- challenge signature verification
\* verifyChallengeSignature, src/src/background/index.ts 264-349.  A buffer is
\* its sequence of bytes.  The 64 bytes r || s of a compact signature are 64
\* times the byte k, and Signatures[k] tells how it was made: by which key,
\* over getChallengeHash(height, version), with which recovery id.  An address
\* is [key, compressed]: the hash160 of the key in that encoding.

\* for (let d = 1; d <= 5; d++)
SearchRange == 5

Signatures ==
  <<[key |-> "authorized", height |-> 1, version |-> 2, recid |-> 0],
    [key |-> "authorized", height |-> 0, version |-> 2, recid |-> 1],
    [key |-> "authorized", height |-> 12, version |-> 1, recid |-> 1],
    [key |-> "stranger", height |-> 1, version |-> 2, recid |-> 0]>>

address(key, compressed) == [key |-> key, compressed |-> compressed]

\* buf.writeUInt32LE(n)
UInt32LE(n) ==
  <<n % 256, (n \div 256) % 256, (n \div 65536) % 256, (n \div 16777216) % 256>>

\* buf.readUInt8(offset) and buf.readUInt32LE(offset), offset from 0; throws:
\* the RangeError of a read past the end
readUInt8(buf, offset) ==
  IF offset + 1 > Len(buf) THEN [throws |-> TRUE, v |-> 0]
  ELSE [throws |-> FALSE, v |-> buf[offset + 1]]

readUInt32LE(buf, offset) ==
  IF offset + 4 > Len(buf) THEN [throws |-> TRUE, v |-> 0]
  ELSE [throws |-> FALSE,
        v |-> buf[offset + 1] + 256 * buf[offset + 2] + 65536 * buf[offset + 3]
                + 16777216 * buf[offset + 4]]

\* buf.slice(start, end): clamped to the buffer
slice(buf, start, end) ==
  SubSeq(buf, start + 1, IF end > Len(buf) THEN Len(buf) ELSE end)

\* an IdentitySignature buffer as its writer lays it out
IdentitySignature(version, height, numSigs, sigLen, flag, k) ==
  <<version>> \o (IF version = 2 THEN <<5>> ELSE <<>>) \o UInt32LE(height)
  \o <<numSigs, sigLen, flag>> \o [i \in 1..64 |-> k]

\* lines 302-314: the recovery flag; ok = FALSE: return false
recoveryFlagLoose(recoveryFlag) ==
  [ok |-> recoveryFlag >= 27 /\ recoveryFlag <= 35,
   recoveryBit |-> IF recoveryFlag >= 31 THEN recoveryFlag - 31 ELSE recoveryFlag - 27,
   compressed |-> recoveryFlag >= 31]
recoveryFlagOf(recoveryFlag) ==
  IF recoveryFlag >= 31 /\ recoveryFlag <= 34
  THEN [ok |-> TRUE, recoveryBit |-> recoveryFlag - 31, compressed |-> TRUE]
  ELSE IF recoveryFlag >= 27 /\ recoveryFlag <= 30
  THEN [ok |-> TRUE, recoveryBit |-> recoveryFlag - 27, compressed |-> FALSE]
  ELSE [ok |-> FALSE, recoveryBit |-> 0, compressed |-> FALSE]

\* lines 318-322: sigBlockHeight, then for d = 1..5 the height above and, if
\* positive, the height below
RECURSIVE searchHeightsFrom(_, _)
searchHeightsFrom(sigBlockHeight, d) ==
  IF d > SearchRange THEN <<>>
  ELSE <<sigBlockHeight + d>>
       \o (IF sigBlockHeight - d > 0 THEN <<sigBlockHeight - d>> ELSE <<>>)
       \o searchHeightsFrom(sigBlockHeight, d + 1)

searchHeights(sigBlockHeight) ==
  <<sigBlockHeight>> \o searchHeightsFrom(sigBlockHeight, 1)

\* lines 325-326: the two loops, as the list of (hashVersion, h) they visit
candidates(sigVersion, sigBlockHeight) ==
  LET hs == searchHeights(sigBlockHeight)
      other == IF sigVersion = 2 THEN 1 ELSE 2
  IN [i \in 1..Len(hs) |-> [hashVersion |-> sigVersion, h |-> hs[i]]]
     \o [i \in 1..Len(hs) |-> [hashVersion |-> other, h |-> hs[i]]]

\* lines 328-333: the address recovered from r || s for one candidate.  The
\* key that signed is recovered from the hash it signed with its recovery id;
\* anything else gives a key nobody holds, and recovery ids 2 and 3 throw
recoveredAddress(compactSig, recoveryBit, compressed, c) ==
  LET sg == Signatures[compactSig[1]] IN
  IF compactSig = <<>> \/ compactSig[1] \notin DOMAIN Signatures \/ recoveryBit >= 2
  THEN [throws |-> TRUE, address |-> address("", compressed)]
  ELSE IF sg.height = c.h /\ sg.version = c.hashVersion /\ sg.recid = recoveryBit
  THEN [throws |-> FALSE, address |-> address(sg.key, compressed)]
  ELSE [throws |-> FALSE, address |-> address("nobody", compressed)]

\* primaryAddresses.includes(recoveredAddress)
includesAlways(primaryAddresses, a) == TRUE
includes(primaryAddresses, a) ==
  \E i \in DOMAIN primaryAddresses : primaryAddresses[i] = a

\* verifyChallengeSignature is called; request: what fromWalletDeeplinkUri
\* gives for the uri (parses, hasSignature, signature: the decoded base64)
VerifyCall(request) == [NoVerify EXCEPT !.pc = "start", !.request = request]

Returns(v, result) == [v EXCEPT !.pc = "done", !.result = result]

\* lines 345-348: an exception thrown anywhere in the body is caught
Uncaught(v) == [v EXCEPT !.pc = "done", !.threw = TRUE]
Caught(v) == Returns(v, "false")

\* lines 270-274: up to await verusid.getIdentity(requestingId)
VerifyStartStep(v) ==
  IF ~v.request.parses THEN Caught(v)
  ELSE IF ~v.request.hasSignature THEN Returns(v, "false")
  ELSE [v EXCEPT !.pc = "identity"]

\* lines 274-322: getIdentity has returned identityResult (throws: it threw);
\* the buffer is decoded and the search list is built
VerifyDecodeStep(v, identityResult) ==
  LET sigBuf == v.request.signature
      primaryAddresses == identityResult.primaryaddresses
      sigVersion == readUInt8(sigBuf, 0)
      o1 == IF sigVersion.v = 2 THEN 2 ELSE 1
      sigBlockHeight == readUInt32LE(sigBuf, o1)
      numSigs == readUInt8(sigBuf, o1 + 4)
      sigLen == readUInt8(sigBuf, o1 + 5)
      offset == o1 + 6
      compactSigBuf == slice(sigBuf, offset, offset + sigLen.v)
      flag == recoveryFlagOf(compactSigBuf[1])
  IN
  IF identityResult.throws THEN Caught(v)
  ELSE IF Len(primaryAddresses) = 0 THEN Returns(v, "false")
  ELSE IF sigVersion.throws THEN Caught(v)
  ELSE IF sigVersion.v # 1 /\ sigVersion.v # 2 THEN Returns(v, "false")
  ELSE IF sigBlockHeight.throws \/ numSigs.throws THEN Caught(v)
  ELSE IF numSigs.v < 1 THEN Returns(v, "false")
  ELSE IF sigLen.throws THEN Caught(v)
  ELSE IF sigLen.v # 65 \/ offset + sigLen.v > Len(sigBuf) THEN Returns(v, "false")
  ELSE IF ~flag.ok
  THEN Returns([v EXCEPT !.decoded = TRUE, !.recoveryFlag = compactSigBuf[1]], "false")
  ELSE [v EXCEPT !.pc = "search", !.primaryAddresses = primaryAddresses,
                 !.sigVersion = sigVersion.v, !.sigBlockHeight = sigBlockHeight.v,
                 !.decoded = TRUE, !.recoveryFlag = compactSigBuf[1],
                 !.recoveryBit = flag.recoveryBit, !.compressed = flag.compressed,
                 !.compactSig = slice(compactSigBuf, 1, 65),
                 !.todo = candidates(sigVersion.v, sigBlockHeight.v)]

\* lines 325-344: one pass of the inner loop, or the return false after it
VerifySearchStep(v) ==
  IF v.todo = <<>> THEN Returns(v, "false")
  ELSE LET c == Head(v.todo)
           r == recoveredAddress(v.compactSig, v.recoveryBit, v.compressed, c)
           w == [v EXCEPT !.todo = Tail(v.todo), !.tried = v.tried \cup {c}]
       IN IF ~r.throws /\ includes(v.primaryAddresses, r.address)
          THEN Returns(w, "true")
          ELSE w

VerifyCalled(request) ==
  /\ verify.pc = "idle"
  /\ verify' = VerifyCall(request)
  /\ UNCHANGED <<now, msgs, tx, broadcasts, serverIndex, calls, crypt,
                 txDetailCache, lastBalanceRequestAt, consentVars, walletVars,
                 last, h>>

VerifyStart ==
  /\ verify.pc = "start"
  /\ verify' = VerifyStartStep(verify)
  /\ UNCHANGED <<now, msgs, tx, broadcasts, serverIndex, calls, crypt,
                 txDetailCache, lastBalanceRequestAt, consentVars, walletVars,
                 last, h>>

IdentityFetched(identityResult) ==
  /\ verify.pc = "identity"
  /\ verify' = VerifyDecodeStep(verify, identityResult)
  /\ UNCHANGED <<now, msgs, tx, broadcasts, serverIndex, calls, crypt,
                 txDetailCache, lastBalanceRequestAt, consentVars, walletVars,
                 last, h>>

VerifySearch ==
  /\ verify.pc = "search"
  /\ verify' = VerifySearchStep(verify)
  /\ UNCHANGED <<now, msgs, tx, broadcasts, serverIndex, calls, crypt,
                 txDetailCache, lastBalanceRequestAt, consentVars, walletVars,
                 last, h>>

\* -------------------------------------------------- the Electrum proxy client
\* src/src/core/electrum.ts.  A logical call is one run of proxyGet or
\* proxyPost: [fn, pc, i, server, tried, result], tried the servers it has
\* sent a request to, in order.
PROXY_SERVERS ==
  <<"https://el0.verus.io", "https://el1.verus.io", "https://el2.verus.io",
    "https://el3.verus.io">>

\* nextServer(): [server, serverIndex] after the call; index: serverIndex before
nextServer(index) ==
  [server |-> PROXY_SERVERS[(index % Len(PROXY_SERVERS)) + 1],
   serverIndex |-> index + 1]

\* the loop test `i < PROXY_SERVERS.length`
moreServers(i) == i < Len(PROXY_SERVERS)

\* the top of the loop body for pass i: the next server is taken and the
\* request sent, or the loop has ended and lastError is thrown
Attempt(c, i, index) ==
  IF moreServers(i)
  THEN [c EXCEPT !.pc = "fetch", !.i = i, !.server = nextServer(index).server,
                 !.tried = Append(c.tried, nextServer(index).server)]
  ELSE [c EXCEPT !.pc = "done", !.i = i, !.result = "throws"]

\* serverIndex after Attempt
IndexAfter(i, index) ==
  IF moreServers(i) THEN nextServer(index).serverIndex ELSE index

\* proxyGet / proxyPost is called and runs up to its first await fetch
ProxyCalled(fn) ==
  /\ calls' = Append(calls, Attempt([fn |-> fn, pc |-> "start", i |-> 0,
                                     server |-> "", tried |-> <<>>,
                                     result |-> ""], 0, serverIndex))
  /\ serverIndex' = IndexAfter(0, serverIndex)
  /\ UNCHANGED <<now, msgs, tx, broadcasts, verify, crypt, txDetailCache,
                 lastBalanceRequestAt,
                 consentVars, walletVars, last, h>>

\* await fetch(url) of call c returns res ("ok": res.ok, "http": !res.ok) or
\* throws (network error, abort after REQUEST_TIMEOUT)
FetchReturned(c, out) ==
  /\ calls[c].pc = "fetch"
  /\ IF out = "ok"
     THEN /\ calls' = [calls EXCEPT ![c].pc = "json"]
          /\ serverIndex' = serverIndex
     ELSE /\ calls' = [calls EXCEPT ![c] = Attempt(calls[c], calls[c].i + 1, serverIndex)]
          /\ serverIndex' = IndexAfter(calls[c].i + 1, serverIndex)
  /\ UNCHANGED <<now, msgs, tx, broadcasts, verify, crypt, txDetailCache,
                 lastBalanceRequestAt,
                 consentVars, walletVars, last, h>>

\* await res.json() of call c returns json ("success", "error": json.msg ===
\* 'error') or throws
JsonReturned(c, out) ==
  /\ calls[c].pc = "json"
  /\ IF out = "success"
     THEN /\ calls' = [calls EXCEPT ![c].pc = "done", ![c].result = "returns"]
          /\ serverIndex' = serverIndex
     ELSE /\ calls' = [calls EXCEPT ![c] = Attempt(calls[c], calls[c].i + 1, serverIndex)]
          /\ serverIndex' = IndexAfter(calls[c].i + 1, serverIndex)
  /\ UNCHANGED <<now, msgs, tx, broadcasts, verify, crypt, txDetailCache,
                 lastBalanceRequestAt,
                 consentVars, walletVars, last, h>>

\* ------------------------------------------------------------------ the vault
\* src/unnamed/part_000.  A string is the sequence of its UTF-16 code units,
\* a byte array the sequence of its bytes.
PBKDF2_ITERATIONS == 900000
SALT_LENGTH == 16
IV_LENGTH == 12
\* the tag AES-GCM appends when no tagLength is given, in bytes
TAG_LENGTH == 16

isHighSurrogate(u) == u >= 55296 /\ u <= 56319
isLowSurrogate(u) == u >= 56320 /\ u <= 57343
isContinuation(b) == b >= 128 /\ b <= 191

\* the UTF-8 bytes of the code point cp
Utf8Of(cp) ==
  IF cp < 128 THEN <<cp>>
  ELSE IF cp < 2048 THEN <<192 + (cp \div 64), 128 + (cp % 64)>>
  ELSE IF cp < 65536
  THEN <<224 + (cp \div 4096), 128 + ((cp \div 64) % 64), 128 + (cp % 64)>>
  ELSE <<240 + (cp \div 262144), 128 + ((cp \div 4096) % 64),
         128 + ((cp \div 64) % 64), 128 + (cp % 64)>>

\* new TextEncoder().encode(s): a surrogate pair is one code point, a
\* surrogate without its partner is encoded as U+FFFD
RECURSIVE TextEncode(_)
TextEncode(s) ==
  IF s = <<>> THEN <<>>
  ELSE IF isHighSurrogate(s[1]) /\ Len(s) >= 2 /\ isLowSurrogate(s[2])
  THEN Utf8Of(65536 + (s[1] - 55296) * 1024 + (s[2] - 56320))
       \o TextEncode(SubSeq(s, 3, Len(s)))
  ELSE IF isHighSurrogate(s[1]) \/ isLowSurrogate(s[1])
  THEN Utf8Of(65533) \o TextEncode(Tail(s))
  ELSE Utf8Of(s[1]) \o TextEncode(Tail(s))

\* the UTF-8 decoder: the code units of the bytes, U+FFFD for a byte that
\* starts no well-formed sequence
RECURSIVE Utf8Decode(_)
Utf8Decode(b) ==
  LET two == (b[1] - 192) * 64 + (b[2] - 128)
      three == (b[1] - 224) * 4096 + (b[2] - 128) * 64 + (b[3] - 128)
      four == (b[1] - 240) * 262144 + (b[2] - 128) * 4096
              + (b[3] - 128) * 64 + (b[4] - 128)
  IN
  IF b = <<>> THEN <<>>
  ELSE IF b[1] < 128 THEN <<b[1]>> \o Utf8Decode(Tail(b))
  ELSE IF /\ b[1] >= 194 /\ b[1] <= 223
          /\ Len(b) >= 2 /\ isContinuation(b[2])
  THEN <<two>> \o Utf8Decode(SubSeq(b, 3, Len(b)))
  ELSE IF /\ b[1] >= 224 /\ b[1] <= 239
          /\ Len(b) >= 3 /\ isContinuation(b[2]) /\ isContinuation(b[3])
          /\ three >= 2048 /\ ~isHighSurrogate(three) /\ ~isLowSurrogate(three)
  THEN <<three>> \o Utf8Decode(SubSeq(b, 4, Len(b)))
  ELSE IF /\ b[1] >= 240 /\ b[1] <= 244
          /\ Len(b) >= 4 /\ isContinuation(b[2]) /\ isContinuation(b[3])
          /\ isContinuation(b[4]) /\ four >= 65536 /\ four <= 1114111
  THEN <<55296 + ((four - 65536) \div 1024), 56320 + ((four - 65536) % 1024)>>
       \o Utf8Decode(SubSeq(b, 5, Len(b)))
  ELSE <<65533>> \o Utf8Decode(Tail(b))

\* new TextDecoder().decode(bytes): ignoreBOM is false, a leading byte order
\* mark EF BB BF is dropped
TextDecode(bytes) ==
  IF Len(bytes) >= 3 /\ SubSeq(bytes, 1, 3) = <<239, 187, 191>>
  THEN Utf8Decode(SubSeq(bytes, 4, Len(bytes)))
  ELSE Utf8Decode(bytes)

\* deriveKey: PBKDF2-HMAC-SHA-256 is taken to be free of collisions, the key
\* is the triple it was derived from
deriveKey(password, salt, iterations) ==
  [password |-> TextEncode(password), salt |-> salt, iterations |-> iterations]

\* crypto.subtle.encrypt({name: 'AES-GCM', iv}, key, data): one cell for each
\* byte of data, then the cells of the tag, which binds key, iv and data
encrypt(key, iv, data) ==
  [k \in 1..Len(data) + TAG_LENGTH |->
     IF k <= Len(data)
     THEN [key |-> key, iv |-> iv, at |-> k, byte |-> data[k], of |-> <<>>]
     ELSE [key |-> key, iv |-> iv, at |-> k, byte |-> 0 - 1, of |-> data]]

\* crypto.subtle.decrypt({name: 'AES-GCM', iv}, key, ciphertext): [ok, data];
\* ok = FALSE where it rejects with an OperationError
decryptUnauthenticated(key, iv, ciphertext) ==
  [ok |-> Len(ciphertext) >= TAG_LENGTH,
   data |-> [k \in 1..Len(ciphertext) - TAG_LENGTH |-> ciphertext[k].byte]]
decrypt(key, iv, ciphertext) ==
  LET n == Len(ciphertext) - TAG_LENGTH
      data == [k \in 1..n |-> ciphertext[k].byte]
  IN
  IF n >= 0 /\ ciphertext = encrypt(key, iv, data)
  THEN [ok |-> TRUE, data |-> data]
  ELSE [ok |-> FALSE, data |-> <<>>]

\* btoa(String.fromCharCode(...result)): one quantum of four characters for
\* each group of up to three bytes, here the group itself
btoa(bytes) ==
  [g \in 1..((Len(bytes) + 2) \div 3) |->
     SubSeq(bytes, 3 * g - 2, IF 3 * g > Len(bytes) THEN Len(bytes) ELSE 3 * g)]

\* Uint8Array.from(atob(encoded), c => c.charCodeAt(0))
RECURSIVE atob(_)
atob(encoded) ==
  IF encoded = <<>> THEN <<>> ELSE Head(encoded) \o atob(Tail(encoded))

\* encryptVault of a build whose PBKDF2_ITERATIONS is iterations; salt, iv:
\* the values crypto.getRandomValues gives
encryptVaultOf(iterations, plaintext, password, salt, iv) ==
  LET key == deriveKey(password, salt, iterations)
      ciphertext == encrypt(key, iv, TextEncode(plaintext))
  IN btoa(salt \o iv \o ciphertext)

encryptVault(plaintext, password, salt, iv) ==
  encryptVaultOf(PBKDF2_ITERATIONS, plaintext, password, salt, iv)

\* decryptVault(encoded, password, iterations): [ok, plaintext]; ok = FALSE
\* where it throws
decryptVault(encoded, password, iterations) ==
  LET data == atob(encoded)
      salt == slice(data, 0, SALT_LENGTH)
      iv == slice(data, SALT_LENGTH, SALT_LENGTH + IV_LENGTH)
      ciphertext == slice(data, SALT_LENGTH + IV_LENGTH, Len(data))
      key == deriveKey(password, salt, iterations)
      plaintext == decrypt(key, iv, ciphertext)
  IN
  IF plaintext.ok
  THEN [ok |-> TRUE, plaintext |-> TextDecode(plaintext.data)]
  ELSE [ok |-> FALSE, plaintext |-> <<>>]

\* encryptVault and decryptVault are called with a plaintext, a password and
\* another password; salt, iv: the values crypto.getRandomValues will give
VaultCalled(plaintext, password, other, salt, iv) ==
  /\ crypt.pc = "idle"
  /\ crypt' = [NoCrypt EXCEPT
                 !.pc = "encrypt", !.plaintext = plaintext,
                 !.password = password, !.other = other, !.salt = salt,
                 !.iv = iv]
  /\ UNCHANGED <<now, msgs, tx, broadcasts, verify, serverIndex, calls,
                 txDetailCache, lastBalanceRequestAt, consentVars, walletVars,
                 last, h>>

\* encryptVault(plaintext, password) returns
VaultEncrypt ==
  /\ crypt.pc = "encrypt"
  /\ crypt' = [crypt EXCEPT
                 !.pc = "decrypt",
                 !.encoded = encryptVault(crypt.plaintext, crypt.password,
                                          crypt.salt, crypt.iv)]
  /\ UNCHANGED <<now, msgs, tx, broadcasts, verify, serverIndex, calls,
                 txDetailCache, lastBalanceRequestAt, consentVars, walletVars,
                 last, h>>

\* decryptVault(encoded, password) returns or throws
VaultDecrypt ==
  /\ crypt.pc = "decrypt"
  /\ crypt' = [crypt EXCEPT
                 !.pc = "decryptOther",
                 !.same = decryptVault(crypt.encoded, crypt.password,
                                       PBKDF2_ITERATIONS)]
  /\ UNCHANGED <<now, msgs, tx, broadcasts, verify, serverIndex, calls,
                 txDetailCache, lastBalanceRequestAt, consentVars, walletVars,
                 last, h>>

\* decryptVault(encoded, other) returns or throws
VaultDecryptOther ==
  /\ crypt.pc = "decryptOther"
  /\ crypt' = [crypt EXCEPT
                 !.pc = "done",
                 !.diff = decryptVault(crypt.encoded, crypt.other,
                                       PBKDF2_ITERATIONS)]
  /\ UNCHANGED <<now, msgs, tx, broadcasts, verify, serverIndex, calls,
                 txDetailCache, lastBalanceRequestAt, consentVars, walletVars,
                 last, h>>

\* ------------------------------------------------------------ wallet storage
NoAttempts == [count |-> 0, lastFailedAt |-> 0]

\* chrome.storage.local after clear(): no vault, no counters
\* the vault record of CREATE_WALLET / IMPORT_WALLET
StoredVault(encrypted, iterations) ==
  [present |-> TRUE, encryptedVault |-> encrypted, pbkdf2Iterations |-> iterations]

\* the password of the wallet ("password") and another one ("Password")
ThePassword == <<112, 97, 115, 115, 119, 111, 114, 100>>
WrongPassword == <<80, 97, 115, 115, 119, 111, 114, 100>>
Passwords == {ThePassword, WrongPassword}

\* JSON.stringify(vaultPayload), abridged to "{}"
VaultPlaintext == <<123, 125>>

\* one value of crypto.getRandomValues for the salt and for the IV
TheSalt == [k \in 1..SALT_LENGTH |-> 7]
TheIV == [k \in 1..IV_LENGTH |-> 9]

\* the vault of a wallet created with ThePassword by this build
TheVault ==
  StoredVault(encryptVault(VaultPlaintext, ThePassword, TheSalt, TheIV),
              PBKDF2_ITERATIONS)

EmptyLocal == [vault |-> NoVault, lists |-> <<>>, addressCount |-> 0, activeAddressIndex |-> 0,
               attempts |-> NoAttempts, balance |-> "", currencyBalances |-> ""]

RECURSIVE Pow2(_)
Pow2(n) == IF n <= 0 THEN 1 ELSE 2 * Pow2(n - 1)

Min(a, b) == IF a <= b THEN a ELSE b

lockoutMsUncapped(count) ==
  BASE_LOCKOUT_MS * Pow2(count - MAX_ATTEMPTS_BEFORE_LOCKOUT)
lockoutMs(count) ==
  Min(BASE_LOCKOUT_MS * Pow2(count - MAX_ATTEMPTS_BEFORE_LOCKOUT), MAX_LOCKOUT_MS)

\* checkUnlockRateLimit: TRUE when the attempt is refused
LockedOutAfterSix(attempts, t) ==
  /\ attempts.count > MAX_ATTEMPTS_BEFORE_LOCKOUT
  /\ t - attempts.lastFailedAt < lockoutMs(attempts.count)
LockedOut(attempts, t) ==
  /\ attempts.count >= MAX_ATTEMPTS_BEFORE_LOCKOUT
  /\ t - attempts.lastFailedAt < lockoutMs(attempts.count)

\* deriveAccounts(seed, count): accounts 0 .. count-1
deriveAccounts(count) == [k \in 1..count |-> k - 1]

\* SWITCH_ADDRESS accepts every index
HasAccountAlways(s, index) == TRUE
\* `session.accounts.find(a => a.index === index)` finds an account
HasAccount(s, index) == \E k \in DOMAIN s.accounts : s.accounts[k] = index

\* resetAutoLock with the default settings
autoLockMs == DEFAULT_AUTO_LOCK_MINUTES * 60000

\* ----------------------------------------------------------- wallet handlers
GetWalletState(s) ==
  /\ Authorized(s, "GET_WALLET_STATE")
  /\ pendingLogins' = PL
  /\ pendingSends' = PS
  /\ Receive([Handler("GET_WALLET_STATE", s, 0) EXCEPT !.pc = "state"])
  /\ UNCHANGED <<restVars, walletVars>>

\* Promise.all([hasVault(), getSession()]) returns
WalletStateRead(i) ==
  /\ h[i].type = "GET_WALLET_STATE" /\ h[i].pc = "state"
  /\ Commit([h EXCEPT ![i] = [Finished(h[i], "ok") EXCEPT
                              !.res = IF session.present THEN "unlocked"
                                      ELSE "locked"]])
  /\ UNCHANGED <<stepVars, consentVars, walletVars>>

\* CREATE_WALLET and IMPORT_WALLET; valid: the password (and, for an import,
\* the recovery phrase) passes the checks
CreateWallet(s, type, valid) ==
  /\ type \in {"CREATE_WALLET", "IMPORT_WALLET"}
  /\ Authorized(s, type)
  /\ pendingLogins' = PL
  /\ pendingSends' = PS
  /\ Receive(IF valid
                    THEN [Handler(type, s, 0) EXCEPT
                            !.pc = "encrypt", !.pw = ThePassword,
                            !.sess = [present |-> TRUE, accounts |-> <<0>>,
                                      activeIndex |-> 0]]
                    ELSE Finished(Handler(type, s, 0), "Invalid password"))
  /\ UNCHANGED <<restVars, walletVars>>

\* await encryptVault(...) returns
VaultEncrypted(i) ==
  /\ h[i].type \in {"CREATE_WALLET", "IMPORT_WALLET"} /\ h[i].pc = "encrypt"
  /\ Commit([h EXCEPT
               ![i].pc = "storeVault",
               ![i].vault = StoredVault(encryptVault(VaultPlaintext, h[i].pw,
                                                     TheSalt, TheIV),
                                        PBKDF2_ITERATIONS)])
  /\ UNCHANGED <<stepVars, consentVars, walletVars>>

\* await chrome.storage.local.set({vault, addressCount: 1, activeAddressIndex: 0})
VaultStored(i) ==
  /\ h[i].type \in {"CREATE_WALLET", "IMPORT_WALLET"} /\ h[i].pc = "storeVault"
  /\ local' = [local EXCEPT !.vault = h[i].vault, !.addressCount = 1,
                            !.activeAddressIndex = 0]
  /\ Commit([h EXCEPT ![i].pc = "setSession"])
  /\ UNCHANGED <<stepVars, consentVars, session, alarmAt>>

\* await setSession(data) takes effect
SessionSet(i) ==
  /\ h[i].pc = "setSession"
  /\ session' = h[i].sess
  /\ Commit([h EXCEPT ![i].pc =
             CASE h[i].type = "ADD_ADDRESS" -> "storeCount"
               [] h[i].type = "SWITCH_ADDRESS" -> "storeActive"
               [] OTHER -> "autolock"])
  /\ UNCHANGED <<stepVars, consentVars, local, alarmAt>>

\* await resetAutoLock() returns: the alarm is cleared and re-armed
ResetAutoLockDone(i) ==
  /\ h[i].pc = "autolock"
  /\ alarmAt' = now + autoLockMs
  /\ Commit([h EXCEPT ![i] =
             IF h[i].type = "UNLOCK_WALLET"
             THEN [h[i] EXCEPT !.pc = "resetAttempts"]
             ELSE Finished(h[i], "ok")])
  /\ UNCHANGED <<stepVars, consentVars, session, local>>

\* UNLOCK_WALLET and GET_MNEMONIC; pw: the password of the message
UnlockWallet(s, type, pw) ==
  /\ type \in {"UNLOCK_WALLET", "GET_MNEMONIC"}
  /\ Authorized(s, type)
  /\ pendingLogins' = PL
  /\ pendingSends' = PS
  /\ Receive([Handler(type, s, 0) EXCEPT !.pc = "rateLimit", !.pw = pw])
  /\ UNCHANGED <<restVars, walletVars>>

\* await checkUnlockRateLimit() returns
RateLimitChecked(i) ==
  /\ h[i].pc = "rateLimit"
  /\ Commit([h EXCEPT ![i] =
             IF LockedOut(local.attempts, now)
             THEN Finished(h[i], "Too many failed attempts")
             ELSE [h[i] EXCEPT !.pc = "readVault"]])
  /\ UNCHANGED <<stepVars, consentVars, walletVars>>

\* await chrome.storage.local.get(['vault', 'addressCount', 'activeAddressIndex'])
VaultRead(i) ==
  LET count == IF local.addressCount = 0 THEN 1 ELSE local.addressCount
      activeIdx == local.activeAddressIndex
  IN
  /\ h[i].pc = "readVault"
  /\ Commit([h EXCEPT ![i] =
             IF ~local.vault.present THEN Finished(h[i], "No wallet found")
             ELSE [h[i] EXCEPT
                     !.pc = "decrypt", !.vault = local.vault,
                     !.sess = [present |-> TRUE,
                               accounts |-> deriveAccounts(count),
                               activeIndex |-> IF activeIdx < count
                                               THEN activeIdx ELSE 0]]])
  /\ UNCHANGED <<stepVars, consentVars, walletVars>>

\* await decryptVault(vault.encryptedVault, password) returns the payload or
\* throws
VaultDecrypted(i) ==
  /\ h[i].pc = "decrypt"
  /\ Commit([h EXCEPT ![i].pc =
             IF ~decryptVault(h[i].vault.encryptedVault, h[i].pw,
                              PBKDF2_ITERATIONS).ok
             THEN "recordGet"
             ELSE IF h[i].type = "UNLOCK_WALLET" THEN "setSession"
             ELSE "resetAttempts"])
  /\ UNCHANGED <<stepVars, consentVars, walletVars>>

\* await resetUnlockAttempts() takes effect
AttemptsReset(i) ==
  /\ h[i].pc = "resetAttempts"
  /\ local' = [local EXCEPT !.attempts = NoAttempts]
  /\ Commit([h EXCEPT ![i] = Finished(h[i], "ok")])
  /\ UNCHANGED <<stepVars, consentVars, session, alarmAt>>

\* recordFailedUnlock: the get returns; count + 1 and Date.now() are computed
FailedUnlockRead(i) ==
  /\ h[i].pc = "recordGet"
  /\ Commit([h EXCEPT ![i].pc = "recordSet",
                    ![i].att = local.attempts.count + 1,
                    ![i].t = now])
  /\ UNCHANGED <<stepVars, consentVars, walletVars>>

\* recordFailedUnlock: the set takes effect
FailedUnlockStored(i) ==
  /\ h[i].pc = "recordSet"
  /\ local' = [local EXCEPT !.attempts =
                 [count |-> h[i].att, lastFailedAt |-> h[i].t]]
  /\ Commit([h EXCEPT ![i] = Finished(h[i], "Incorrect password")])
  /\ UNCHANGED <<stepVars, consentVars, session, alarmAt>>

\* LOCK_WALLET and RESET_WALLET
LockWallet(s, type) ==
  /\ type \in {"LOCK_WALLET", "RESET_WALLET"}
  /\ Authorized(s, type)
  /\ pendingLogins' = PL
  /\ pendingSends' = PS
  /\ Receive([Handler(type, s, 0) EXCEPT !.pc = "lockGet"])
  /\ UNCHANGED <<restVars, walletVars>>

\* chrome.alarms.onAlarm for 'auto-lock'
AutoLockAlarm ==
  /\ alarmAt # 0 /\ now >= alarmAt
  /\ alarmAt' = 0
  /\ DOMAIN h \ InFlight # {}
  /\ Commit([h EXCEPT ![FreeSlot] = [Handler("ALARM", PopupSender, 0) EXCEPT
                                     !.pc = "lockGet"]])
  /\ msgs' = msgs + 1
  /\ UNCHANGED <<now, tx, broadcasts, moduleVars, consentVars, session, local>>

\* await getSession() returns in LOCK_WALLET / RESET_WALLET / the alarm; the
\* copy's seed is zero-filled
LockSessionRead(i) ==
  /\ h[i].pc = "lockGet"
  /\ Commit([h EXCEPT ![i].pc = "clear"])
  /\ UNCHANGED <<stepVars, consentVars, walletVars>>

\* await clearSession() takes effect
SessionCleared(i) ==
  /\ h[i].pc = "clear"
  /\ session' = NoSession
  /\ txDetailCache' = <<>>
  /\ Commit([h EXCEPT ![i] =
             IF h[i].type = "ALARM" THEN Finished(h[i], "auto-locked")
             ELSE [h[i] EXCEPT !.pc = "alarmClear"]])
  /\ UNCHANGED <<now, msgs, tx, broadcasts, verify, serverIndex, calls, crypt,
                 lastBalanceRequestAt,
                 consentVars, local, alarmAt>>

\* await chrome.alarms.clear('auto-lock') takes effect
AlarmCleared(i) ==
  /\ h[i].pc = "alarmClear"
  /\ alarmAt' = 0
  /\ Commit([h EXCEPT ![i] =
             IF h[i].type = "RESET_WALLET"
             THEN [h[i] EXCEPT !.pc = "localClear"]
             ELSE Finished(h[i], "ok")])
  /\ UNCHANGED <<stepVars, consentVars, session, local>>

\* await chrome.storage.local.clear() takes effect
LocalCleared(i) ==
  /\ h[i].pc = "localClear"
  /\ local' = EmptyLocal
  /\ Commit([h EXCEPT ![i] = Finished(h[i], "ok")])
  /\ UNCHANGED <<stepVars, consentVars, session, alarmAt>>

\* ADD_ADDRESS and SWITCH_ADDRESS; index: the payload of SWITCH_ADDRESS
AccountMessage(s, type, index) ==
  /\ type \in {"ADD_ADDRESS", "SWITCH_ADDRESS"}
  /\ Authorized(s, type)
  /\ pendingLogins' = PL
  /\ pendingSends' = PS
  /\ Receive([Handler(type, s, 0) EXCEPT !.pc = "getSession",
                                               !.idx = index])
  /\ UNCHANGED <<restVars, walletVars>>

\* await getSession() returns in ADD_ADDRESS / SWITCH_ADDRESS; the session
\* object is changed and setSession is called
AccountSessionRead(i) ==
  LET n == Len(session.accounts) IN
  /\ h[i].pc = "getSession"
  /\ Commit([h EXCEPT ![i] =
             IF ~session.present THEN Finished(h[i], "Wallet is locked")
             ELSE IF h[i].type = "ADD_ADDRESS"
             THEN IF n >= MAX_ACCOUNTS
                  THEN Finished(h[i], "Maximum of accounts reached")
                  ELSE [h[i] EXCEPT
                          !.pc = "setSession",
                          !.sess = [session EXCEPT
                                      !.accounts = Append(session.accounts, n)]]
             ELSE IF ~HasAccount(session, h[i].idx)
                  THEN Finished(h[i], "Address not found")
                  ELSE [h[i] EXCEPT
                          !.pc = "setSession",
                          !.sess = [session EXCEPT !.activeIndex = h[i].idx]]])
  /\ UNCHANGED <<stepVars, consentVars, walletVars>>

\* await chrome.storage.local.set({addressCount}) takes effect
AddressCountStored(i) ==
  /\ h[i].pc = "storeCount"
  /\ local' = [local EXCEPT !.addressCount = Len(h[i].sess.accounts)]
  /\ Commit([h EXCEPT ![i] = Finished(h[i], "ok")])
  /\ UNCHANGED <<stepVars, consentVars, session, alarmAt>>

\* await chrome.storage.local.set({activeAddressIndex}) takes effect
ActiveIndexStored(i) ==
  /\ h[i].pc = "storeActive"
  /\ local' = [local EXCEPT !.activeAddressIndex = h[i].idx]
  /\ Commit([h EXCEPT ![i].pc = "removeBalance"])
  /\ UNCHANGED <<stepVars, consentVars, session, alarmAt>>

\* await chrome.storage.local.remove('balance') takes effect
BalanceRemoved(i) ==
  /\ h[i].pc = "removeBalance"
  /\ local' = [local EXCEPT !.balance = ""]
  /\ Commit([h EXCEPT ![i] = Finished(h[i], "ok")])
  /\ UNCHANGED <<stepVars, consentVars, session, alarmAt>>

\* ------------------------------------------------------------ send handlers
SendTypes == {"SEND_TRANSACTION", "SEND_CONVERSION"}

\* SEND_TRANSACTION and SEND_CONVERSION; p.addrOk: `to` is a valid address
\* (conversion: the currency ids are valid i-addresses); t: Date.now() when
\* the message arrives
SendMessage(s, type, p) ==
  /\ type \in SendTypes
  /\ Authorized(s, type)
  /\ pendingLogins' = PL
  /\ pendingSends' = PS
  /\ Receive([Handler(type, s, 0) EXCEPT
                !.pc = "sendSession", !.t = now,
                !.build = BuilderCall(IF type = "SEND_TRANSACTION"
                                      THEN "buildTransaction"
                                      ELSE "buildConversionTransaction",
                                      p.direct, p.addrOk, p.amount,
                                      <<>>, 0, 0, "")])
  /\ UNCHANGED <<restVars, walletVars>>

\* await getSession() returns; the payload is checked and the key derived
SendSessionRead(i) ==
  LET c == h[i].build
      badAmount == c.amount <= 0
  IN
  /\ h[i].type \in SendTypes /\ h[i].pc = "sendSession"
  /\ Commit([h EXCEPT ![i] =
             IF ~session.present THEN Finished(h[i], "Wallet is locked")
             ELSE IF h[i].type = "SEND_TRANSACTION" /\ ~c.addrOk
             THEN Finished(h[i], "Invalid recipient address")
             ELSE IF badAmount THEN Finished(h[i], "Invalid amount")
             ELSE IF ~c.addrOk THEN Finished(h[i], "Invalid currency ID")
             ELSE [h[i] EXCEPT !.pc = "fetch", !.sess = session]])
  /\ UNCHANGED <<stepVars, consentVars, walletVars>>

\* listUnspent and estimateFee return (f.ok) or one of them throws; the
\* builder then runs to its return or throw
SendBuilt(i, f) ==
  LET r == RunBuilder([h[i].build EXCEPT
                         !.utxos = f.utxos, !.feeRate = f.feeRate,
                         !.scriptLen = f.scriptLen, !.decoded = f.decoded])
  IN
  /\ h[i].type \in SendTypes /\ h[i].pc = "fetch"
  /\ Commit([h EXCEPT ![i] =
             IF ~f.ok THEN Finished(h[i], "Transaction failed")
             ELSE IF hasRawTx(r) THEN [h[i] EXCEPT !.pc = "broadcast", !.build = r]
             ELSE Finished(h[i], r.err)])
  /\ UNCHANGED <<stepVars, consentVars, walletVars>>

\* await electrum.broadcastTransaction(rawTx) returns the txid or throws
SendBroadcast(i, sent) ==
  /\ h[i].type \in SendTypes /\ h[i].pc = "broadcast"
  /\ broadcasts' = broadcasts \cup {h[i].build}
  /\ Commit([h EXCEPT ![i] = Finished(h[i], IF sent THEN "ok" ELSE "Transaction failed")])
  /\ UNCHANGED <<now, msgs, tx, moduleVars, consentVars, walletVars>>

\* RESET_AUTO_LOCK
ResetAutoLockMessage(s) ==
  /\ Authorized(s, "RESET_AUTO_LOCK")
  /\ pendingLogins' = PL
  /\ pendingSends' = PS
  /\ Receive([Handler("RESET_AUTO_LOCK", s, 0) EXCEPT !.pc = "resetSession", !.t = now])
  /\ UNCHANGED <<restVars, walletVars>>

\* await getSession() returns in RESET_AUTO_LOCK
ResetSessionRead(i) ==
  /\ h[i].pc = "resetSession"
  /\ Commit([h EXCEPT ![i] =
             IF ~session.present THEN Finished(h[i], "Wallet is locked")
             ELSE [h[i] EXCEPT !.pc = "autolock", !.sess = session]])
  /\ UNCHANGED <<stepVars, consentVars, walletVars>>

\* ------------------------------------------------------ transaction history
INSIGHT_TX_CACHE_KEY == "insightTxCache"

\* the number of transactions GET_TRANSACTIONS decodes
RecentLimit == 20

\* getActiveAccount(session).address; an address is named by its index
activeAddress(sess) == sess.activeIndex

\* INSIGHT_TX_CACHE_KEY + ':' + active.address, cachePrefix + tx.txid
cacheStoreKey(addr) == <<INSIGHT_TX_CACHE_KEY, addr>>
cacheKey(addr, txid) == <<addr, txid>>

\* the comparator of txList.sort: unconfirmed (height 0) first, then by
\* height descending
compareHeight(a, b) ==
  IF a.height = 0 /\ b.height = 0 THEN 0
  ELSE IF a.height = 0 THEN 0 - 1
  ELSE IF b.height = 0 THEN 1
  ELSE b.height - a.height

\* x put into the sorted list after the entries that do not sort after it
RECURSIVE InsertByHeight(_, _)
InsertByHeight(x, sorted) ==
  IF sorted = <<>> THEN <<x>>
  ELSE IF compareHeight(Head(sorted), x) <= 0
  THEN <<Head(sorted)>> \o InsertByHeight(x, Tail(sorted))
  ELSE <<x>> \o sorted

\* txList.sort(...): stable
RECURSIVE SortByHeight(_)
SortByHeight(list) ==
  IF list = <<>> THEN <<>>
  ELSE InsertByHeight(list[Len(list)], SortByHeight(SubSeq(list, 1, Len(list) - 1)))

\* `cached && tx.confirmed`
useCached(cache, key, entry) == key \in DOMAIN cache /\ entry.confirmed

\* `if (tx.confirmed) txDetailCache.set(cacheKey, decoded)`
cacheWrite(cache, key, entry, decoded) ==
  IF entry.confirmed THEN Put(cache, key, decoded) ELSE cache

\* the prune loop: the keys of this address that are not in the recent list
\* are deleted
prune(cache, addr, recent) ==
  [key \in {c \in DOMAIN cache :
              c[1] # addr \/ \E k \in DOMAIN recent : c = cacheKey(addr, recent[k].txid)}
     |-> cache[key]]

\* GET_TRANSACTIONS from the list to the first await of the detail fetches:
\* the list is sorted and cut, each entry is answered from the cache or its
\* detail is requested.  fresh: the list is the one insight.listTransactions
\* returned in this call
Enrich(hd, txList, fresh) ==
  LET addr == activeAddress(hd.sess)
      recent == slice(SortByHeight(txList), 0, RecentLimit)
      out == [k \in DOMAIN recent |->
                IF useCached(txDetailCache, cacheKey(addr, recent[k].txid), recent[k])
                THEN [from |-> "cache",
                      detail |-> txDetailCache[cacheKey(addr, recent[k].txid)]]
                ELSE [from |-> "pending", detail |-> 0]]
      pend == {k \in DOMAIN recent : out[k].from = "pending"}
  IN
  IF txList = <<>>
  THEN Finished(hd, "ok")
  ELSE [hd EXCEPT !.pc = IF pend = {} THEN "prune" ELSE "details",
                  !.list = recent, !.fresh = fresh, !.out = out, !.pend = pend]

GetTransactions(s) ==
  /\ Authorized(s, "GET_TRANSACTIONS")
  /\ pendingLogins' = PL
  /\ pendingSends' = PS
  /\ Receive([Handler("GET_TRANSACTIONS", s, 0) EXCEPT !.pc = "txSession"])
  /\ UNCHANGED <<restVars, walletVars>>

\* await getSession() returns
TxSessionRead(i) ==
  /\ h[i].type = "GET_TRANSACTIONS" /\ h[i].pc = "txSession"
  /\ Commit([h EXCEPT ![i] =
             IF ~session.present THEN Finished(h[i], "Wallet is locked")
             ELSE [h[i] EXCEPT !.pc = "list", !.sess = session]])
  /\ UNCHANGED <<stepVars, consentVars, walletVars>>

\* await insight.listTransactions(active.address) returns txList
ListFetched(i, txList) ==
  /\ h[i].type = "GET_TRANSACTIONS" /\ h[i].pc = "list"
  /\ Commit([h EXCEPT ![i].pc = "storeList", ![i].list = txList])
  /\ UNCHANGED <<stepVars, consentVars, walletVars>>

\* await insight.listTransactions(active.address) throws
ListFailed(i) ==
  /\ h[i].type = "GET_TRANSACTIONS" /\ h[i].pc = "list"
  /\ Commit([h EXCEPT ![i].pc = "loadList"])
  /\ UNCHANGED <<stepVars, consentVars, walletVars>>

\* await chrome.storage.local.set({[cacheStoreKey]: txList}) takes effect
ListStored(i) ==
  /\ h[i].type = "GET_TRANSACTIONS" /\ h[i].pc = "storeList"
  /\ local' = [local EXCEPT !.lists =
                 Put(@, cacheStoreKey(activeAddress(h[i].sess)), h[i].list)]
  /\ Commit([h EXCEPT ![i] = Enrich(h[i], h[i].list, TRUE)])
  /\ UNCHANGED <<stepVars, consentVars, session, alarmAt>>

\* await chrome.storage.local.get(cacheStoreKey) returns the stored list
ListLoaded(i) ==
  /\ h[i].type = "GET_TRANSACTIONS" /\ h[i].pc = "loadList"
  /\ Commit([h EXCEPT ![i] =
             Enrich(h[i], Lookup(local.lists,
                                 cacheStoreKey(activeAddress(h[i].sess)), <<>>),
                    FALSE)])
  /\ UNCHANGED <<stepVars, consentVars, walletVars>>

\* await electrum.getTransactionVerbose(tx.txid) of entry k returns the
\* detail, decoded as `decoded`, or throws (decoded = 0)
DetailFetched(i, k, decoded) ==
  LET key == cacheKey(activeAddress(h[i].sess), h[i].list[k].txid)
      pend == h[i].pend \ {k}
  IN
  /\ h[i].type = "GET_TRANSACTIONS" /\ h[i].pc = "details"
  /\ k \in h[i].pend
  /\ txDetailCache' = IF decoded = 0 THEN txDetailCache
                      ELSE cacheWrite(txDetailCache, key, h[i].list[k], decoded)
  /\ Commit([h EXCEPT
               ![i].pend = pend,
               ![i].out[k] = IF decoded = 0
                             THEN [from |-> "failed", detail |-> 0]
                             ELSE [from |-> "fetched", detail |-> decoded],
               ![i].pc = IF pend = {} THEN "prune" ELSE "details"])
  /\ UNCHANGED <<now, msgs, tx, broadcasts, verify, serverIndex, calls, crypt,
                 lastBalanceRequestAt,
                 consentVars, walletVars>>

\* Promise.all has resolved: the cache is pruned and the list returned
TxPruned(i) ==
  /\ h[i].type = "GET_TRANSACTIONS" /\ h[i].pc = "prune"
  /\ txDetailCache' = prune(txDetailCache, activeAddress(h[i].sess), h[i].list)
  /\ Commit([h EXCEPT ![i] = Finished(h[i], "ok")])
  /\ UNCHANGED <<now, msgs, tx, broadcasts, verify, serverIndex, calls, crypt,
                 lastBalanceRequestAt,
                 consentVars, walletVars>>

\* --------------------------------------------------------- balance queries
BalanceTypes == {"GET_BALANCE", "GET_CURRENCY_BALANCES"}

\* the chrome.storage.local key under which a query caches its answer
cacheField(type) == IF type = "GET_BALANCE" THEN "balance" ELSE "currencyBalances"

\* the message a query fails with when the fetch threw and nothing is cached
fetchFailure(type) ==
  IF type = "GET_BALANCE" THEN "Failed to fetch balance"
  ELSE "Failed to fetch currency balances"

\* the query answers with the cached value only while there is none to fetch
fallbackNever(cached) == FALSE
\* `if (cached) return ok(cached)`
fallback(cached) == cached # ""

\* GET_BALANCE / GET_CURRENCY_BALANCES arrives
GetBalance(s, type) ==
  /\ type \in BalanceTypes
  /\ Authorized(s, type)
  /\ pendingLogins' = PL
  /\ pendingSends' = PS
  /\ Receive([Handler(type, s, 0) EXCEPT !.pc = "balanceSession"])
  /\ UNCHANGED <<restVars, walletVars>>

\* await getSession() returns; GET_BALANCE reads Date.now() and, throttled,
\* goes on to read the cache; otherwise the fetch is started
BalanceSessionRead(i) ==
  LET throttled == h[i].type = "GET_BALANCE"
                   /\ now - lastBalanceRequestAt < BALANCE_THROTTLE_MS
  IN
  /\ h[i].pc = "balanceSession"
  /\ Commit([h EXCEPT ![i] =
             IF ~session.present THEN Finished(h[i], "Wallet is locked")
             ELSE [h[i] EXCEPT !.t = now,
                               !.pc = IF throttled THEN "throttled" ELSE "fetch"]])
  /\ lastBalanceRequestAt' =
       IF session.present /\ h[i].type = "GET_BALANCE" /\ ~throttled
       THEN now ELSE lastBalanceRequestAt
  /\ UNCHANGED <<now, msgs, tx, broadcasts, verify, serverIndex, calls, crypt,
                 txDetailCache, consentVars, walletVars>>

\* the throttled GET_BALANCE: await getCachedBalance() returns
ThrottledRead(i) ==
  /\ h[i].pc = "throttled"
  /\ Commit([h EXCEPT ![i] =
             IF fallback(local.balance)
             THEN Finished([h[i] EXCEPT !.res = local.balance], "ok")
             ELSE [h[i] EXCEPT !.pc = "fetch"]])
  /\ lastBalanceRequestAt' =
       IF fallback(local.balance) THEN lastBalanceRequestAt ELSE h[i].t
  /\ UNCHANGED <<now, msgs, tx, broadcasts, verify, serverIndex, calls, crypt,
                 txDetailCache, consentVars, walletVars>>

\* await electrum.getBalance / insight.getCurrencyBalances returns `fetched`,
\* or throws (fetched = "")
BalanceFetched(i, fetched) ==
  /\ h[i].type \in BalanceTypes /\ h[i].pc = "fetch"
  /\ Commit([h EXCEPT ![i] =
             IF fetched = "" THEN [h[i] EXCEPT !.pc = "cached"]
             ELSE [h[i] EXCEPT !.pc = "store", !.res = fetched]])
  /\ UNCHANGED <<stepVars, consentVars, walletVars>>

\* await setCachedBalance(balance) / chrome.storage.local.set({currencyBalances})
\* takes effect and the fetched value is returned
BalanceStored(i) ==
  /\ h[i].type \in BalanceTypes /\ h[i].pc = "store"
  /\ local' = [local EXCEPT ![cacheField(h[i].type)] = h[i].res]
  /\ Commit([h EXCEPT ![i] = Finished(h[i], "ok")])
  /\ UNCHANGED <<stepVars, consentVars, session, alarmAt>>

\* the catch block: the read of the cache returns
CachedRead(i) ==
  LET cached == local[cacheField(h[i].type)] IN
  /\ h[i].type \in BalanceTypes /\ h[i].pc = "cached"
  /\ Commit([h EXCEPT ![i] =
             IF fallback(cached)
             THEN Finished([h[i] EXCEPT !.res = cached], "ok")
             ELSE Finished(h[i], fetchFailure(h[i].type))])
  /\ UNCHANGED <<stepVars, consentVars, walletVars>>

\* -------------------------------------------------------------------- clock
Tick(d) ==
  /\ now' = now + d
  /\ UNCHANGED <<msgs, tx, broadcasts, moduleVars, consentVars, walletVars, last, h>>

\* ------------------------------------------------ the consent specification
\* A message names a request by one of the ids handed out so far or by 0, an
\* id crypto.randomUUID() never returns.
\* The registries, the approval handlers and LOCK_WALLET, from a service worker
\* that starts with the wallet unlocked.  The clock either stands still or
\* jumps past the TTL of everything created so far.
ConsentSenders == {PopupSender, WebSender(1, "a")}

ConsentClock == {0, PENDING_LOGIN_TTL_MS + TickMs}

PrivilegedConsentTypes ==
  {"GET_PENDING_LOGIN", "DAPP_APPROVE", "DAPP_REJECT", "GET_PENDING_SEND",
   "DAPP_APPROVE_SEND", "DAPP_REJECT_SEND", "LOCK_WALLET", "UNLOCK_WALLET",
   "GET_MNEMONIC", "SEND_TRANSACTION"}

\* a challenge timestamp that is accepted at every time of the specifications
\* that do not vary it
FreshStamp == Epoch \div 1000 + MAX_FUTURE_SEC

LoginPayloads ==
  {[uriOk |-> FALSE, createdAt |-> FreshStamp, requestingId |-> TRUE],
   [uriOk |-> TRUE, createdAt |-> FreshStamp, requestingId |-> TRUE],
   [uriOk |-> TRUE, createdAt |-> FreshStamp, requestingId |-> FALSE]}

SendPayloads == {[valid |-> FALSE], [valid |-> TRUE]}

\* the webhook URL of a deep link: absent, or on the host of origin a or b
Webhooks == {"", "https://a.example/hook", "https://b.example/hook"}

UnlockedSession == [present |-> TRUE, accounts |-> <<0>>, activeIndex |-> 0]

\* the service worker has started: the maps are empty, chrome.storage holds
\* the vault and the session of an unlocked wallet
InitUnlocked(slots) ==
  /\ now = Epoch
  /\ pendingLogins = <<>>
  /\ pendingSends = <<>>
  /\ lastPopupByOrigin = <<>>
  /\ nextId = 1
  /\ windows = {}
  /\ tabMsgs = <<>>
  /\ verifyLog = {}
  /\ claims = <<>>
  /\ expiredIds = {}
  /\ session = UnlockedSession
  /\ local = [EmptyLocal EXCEPT !.vault = TheVault, !.addressCount = 1]
  /\ alarmAt = Epoch + autoLockMs
  /\ msgs = 0
  /\ last = Idle
  /\ tx = NoTx
  /\ broadcasts = {}
  /\ ModulesLoaded
  /\ h = [i \in 1..slots |-> Idle]

InitConsent == InitUnlocked(MaxInFlightConsent)

MayReceiveConsent == msgs < MaxMsgsConsent

NextConsent ==
  \/ MayReceiveConsent /\ \E s \in ConsentSenders, t \in PrivilegedConsentTypes :
                             Unauthorized(t, s)
  \/ MayReceiveConsent /\ \E s \in ConsentSenders : Ping(s)
  \/ MayReceiveConsent /\ \E s \in ConsentSenders, rid \in 0..nextId - 1 :
                             GetPendingLogin(s, rid)
  \/ MayReceiveConsent /\ \E s \in ConsentSenders, p \in LoginPayloads :
                             DappLoginDeeplink(s, p)
  \/ MayReceiveConsent /\ \E s \in ConsentSenders, rid \in 0..nextId - 1 :
                             DappApprove(s, rid)
  \/ MayReceiveConsent /\ \E s \in ConsentSenders, rid \in 0..nextId - 1 :
                             DappReject(s, rid)
  \/ MayReceiveConsent /\ \E s \in ConsentSenders, p \in SendPayloads :
                             DappSendRequest(s, p)
  \/ MayReceiveConsent /\ \E s \in ConsentSenders, rid \in 0..nextId - 1 :
                             GetPendingSend(s, rid)
  \/ MayReceiveConsent /\ \E s \in ConsentSenders, rid \in 0..nextId - 1 :
                             DappApproveSend(s, rid)
  \/ MayReceiveConsent /\ \E s \in ConsentSenders, rid \in 0..nextId - 1 :
                             DappRejectSend(s, rid)
  \/ MayReceiveConsent /\ \E s \in ConsentSenders : LockWallet(s, "LOCK_WALLET")
  \/ \E i \in InFlight, r \in BOOLEAN : VerifyDone(i, r)
  \/ \E i \in InFlight : WindowCreated(i, TRUE)
  \/ \E i \in InFlight, amtOk \in BOOLEAN : ApproveSession(i, amtOk)
  \/ \E i \in InFlight, r \in BOOLEAN, hook \in Webhooks : ApproveHeight(i, r, hook)
  \/ \E i \in InFlight, out \in {"ok", "http", "throw"} : ApprovePost(i, out)
  \/ \E i \in InFlight, r \in ApprovalBuilds : ApproveBuild(i, r)
  \/ \E i \in InFlight, r \in BOOLEAN : ApproveBroadcast(i, r)
  \/ \E i \in InFlight : LockSessionRead(i)
  \/ \E i \in InFlight : SessionCleared(i)
  \/ \E i \in InFlight : AlarmCleared(i)
  \/ \E w \in windows : WindowRemoved(w)
  \/ \E t \in ConsentClock : Epoch + t > now /\ Tick(Epoch + t - now)

SpecConsent == InitConsent /\ [][NextConsent]_vars

\* -------------------------------------------------- the timed specification
\* The registries under a clock that stops within the cooldown, at the
\* cooldown and past the TTL, with requests from two origins, one of them in
\* a tab without an id.
TimedSenders == {PopupSender, WebSender(1, "a"), WebSender(0, "b")}

ClockPoints == {0, TickMs, POPUP_COOLDOWN_MS, PENDING_LOGIN_TTL_MS + TickMs}

InitTimed == InitUnlocked(MaxInFlightTimed)

MayReceiveTimed == msgs < MaxMsgsTimed

NextTimed ==
  \/ MayReceiveTimed /\ \E s \in TimedSenders, rid \in 0..nextId - 1 :
                           GetPendingLogin(s, rid)
  \/ MayReceiveTimed /\ \E s \in TimedSenders, p \in LoginPayloads :
                           DappLoginDeeplink(s, p)
  \/ MayReceiveTimed /\ \E s \in TimedSenders, rid \in 0..nextId - 1 :
                           DappApprove(s, rid)
  \/ MayReceiveTimed /\ \E s \in TimedSenders, rid \in 0..nextId - 1 :
                           DappReject(s, rid)
  \/ MayReceiveTimed /\ \E s \in TimedSenders, p \in SendPayloads :
                           DappSendRequest(s, p)
  \/ MayReceiveTimed /\ \E s \in TimedSenders, rid \in 0..nextId - 1 :
                           GetPendingSend(s, rid)
  \/ MayReceiveTimed /\ \E s \in TimedSenders, rid \in 0..nextId - 1 :
                           DappApproveSend(s, rid)
  \/ MayReceiveTimed /\ \E s \in TimedSenders, rid \in 0..nextId - 1 :
                           DappRejectSend(s, rid)
  \/ \E i \in InFlight, r \in BOOLEAN : VerifyDone(i, r)
  \/ \E i \in InFlight, hasId \in BOOLEAN : WindowCreated(i, hasId)
  \/ \E i \in InFlight, amtOk \in BOOLEAN : ApproveSession(i, amtOk)
  \/ \E i \in InFlight, r \in BOOLEAN, hook \in Webhooks : ApproveHeight(i, r, hook)
  \/ \E i \in InFlight, out \in {"ok", "http", "throw"} : ApprovePost(i, out)
  \/ \E i \in InFlight, r \in ApprovalBuilds : ApproveBuild(i, r)
  \/ \E i \in InFlight, r \in BOOLEAN : ApproveBroadcast(i, r)
  \/ \E w \in windows : WindowRemoved(w)
  \/ \E t \in ClockPoints : Epoch + t > now /\ Tick(Epoch + t - now)

SpecTimed == InitTimed /\ [][NextTimed]_vars

\* ----------------------------------------------- the cooldown specification
\* Two pages send well-formed login and send requests at times within, at
\* and after the cooldown; the popup rejects requests and approval windows
\* are closed.
CooldownSenders == {WebSender(1, "a"), WebSender(2, "b")}

CooldownClock == {0, TickMs, POPUP_COOLDOWN_MS, POPUP_COOLDOWN_MS + TickMs}

InitCooldown == InitUnlocked(MaxInFlightCooldown)

MayReceiveCooldown == msgs < MaxMsgsCooldown

NextCooldown ==
  \/ MayReceiveCooldown /\ \E s \in CooldownSenders :
       DappLoginDeeplink(s, [uriOk |-> TRUE, createdAt |-> FreshStamp,
                            requestingId |-> TRUE])
  \/ MayReceiveCooldown /\ \E s \in CooldownSenders :
       DappSendRequest(s, [valid |-> TRUE])
  \/ MayReceiveCooldown /\ \E rid \in 0..nextId - 1 : DappReject(PopupSender, rid)
  \/ MayReceiveCooldown /\ \E rid \in 0..nextId - 1 : DappRejectSend(PopupSender, rid)
  \/ \E i \in InFlight : WindowCreated(i, TRUE)
  \/ \E w \in windows : WindowRemoved(w)
  \/ \E t \in CooldownClock : Epoch + t > now /\ Tick(Epoch + t - now)

SpecCooldown == InitCooldown /\ [][NextCooldown]_vars

\* ----------------------------------------------- the capacity specification
\* One page sends login and send requests, each when the approval window of
\* the previous one has opened, waiting out the cooldown between them, until
\* the registries are full.
CapacitySender == WebSender(1, "a")

InitCapacity == InitUnlocked(1)

MayReceiveCapacity == msgs < MaxMsgsCapacity

NextCapacity ==
  \/ MayReceiveCapacity
       /\ DappLoginDeeplink(CapacitySender,
                            [uriOk |-> TRUE, createdAt |-> FreshStamp,
                             requestingId |-> TRUE])
  \/ MayReceiveCapacity /\ DappSendRequest(CapacitySender, [valid |-> TRUE])
  \/ \E i \in InFlight : WindowCreated(i, TRUE)
  \/ /\ now - Lookup(lastPopupByOrigin, CapacitySender.origin, 0) < POPUP_COOLDOWN_MS
     /\ Tick(POPUP_COOLDOWN_MS)

SpecCapacity == InitCapacity /\ [][NextCapacity]_vars

\* ------------------------------------------------ the session specification
\* The popup creates, unlocks, locks and resets the wallet and adds and
\* switches accounts; the auto-lock alarm fires when its time has come.
SessionTypes == {"CREATE_WALLET", "IMPORT_WALLET", "UNLOCK_WALLET"}

InitSession == InitUnlocked(MaxInFlightSession)

MayReceiveSession == msgs < MaxMsgsSession

NextSession ==
  \/ MayReceiveSession /\ GetWalletState(PopupSender)
  \/ MayReceiveSession /\ \E t \in {"CREATE_WALLET", "IMPORT_WALLET"}, v \in BOOLEAN :
                             CreateWallet(PopupSender, t, v)
  \/ MayReceiveSession /\ \E pw \in Passwords :
                             UnlockWallet(PopupSender, "UNLOCK_WALLET", pw)
  \/ MayReceiveSession /\ \E t \in {"LOCK_WALLET", "RESET_WALLET"} :
                             LockWallet(PopupSender, t)
  \/ MayReceiveSession /\ \E t \in {"ADD_ADDRESS", "SWITCH_ADDRESS"}, k \in 0..1 :
                             AccountMessage(PopupSender, t, k)
  \/ MayReceiveSession /\ AutoLockAlarm
  \/ \E i \in InFlight : WalletStateRead(i)
  \/ \E i \in InFlight : VaultEncrypted(i)
  \/ \E i \in InFlight : VaultStored(i)
  \/ \E i \in InFlight : SessionSet(i)
  \/ \E i \in InFlight : ResetAutoLockDone(i)
  \/ \E i \in InFlight : RateLimitChecked(i)
  \/ \E i \in InFlight : VaultRead(i)
  \/ \E i \in InFlight : VaultDecrypted(i)
  \/ \E i \in InFlight : AttemptsReset(i)
  \/ \E i \in InFlight : FailedUnlockRead(i)
  \/ \E i \in InFlight : FailedUnlockStored(i)
  \/ \E i \in InFlight : LockSessionRead(i)
  \/ \E i \in InFlight : SessionCleared(i)
  \/ \E i \in InFlight : AlarmCleared(i)
  \/ \E i \in InFlight : LocalCleared(i)
  \/ \E i \in InFlight : AccountSessionRead(i)
  \/ \E i \in InFlight : AddressCountStored(i)
  \/ \E i \in InFlight : ActiveIndexStored(i)
  \/ \E i \in InFlight : BalanceRemoved(i)
  \/ alarmAt # 0 /\ now < alarmAt /\ Tick(alarmAt - now)

SpecSession == InitSession /\ [][NextSession]_vars

\* ------------------------------------------------- the unlock specification
\* The popup tries passwords one after the other, each attempt sent when the
\* previous one has been answered, on a wallet that is locked.
UnlockHorizon == 2 * BASE_LOCKOUT_MS

InitUnlock ==
  /\ now = Epoch
  /\ pendingLogins = <<>>
  /\ pendingSends = <<>>
  /\ lastPopupByOrigin = <<>>
  /\ nextId = 1
  /\ windows = {}
  /\ tabMsgs = <<>>
  /\ verifyLog = {}
  /\ claims = <<>>
  /\ expiredIds = {}
  /\ session = NoSession
  /\ local = [EmptyLocal EXCEPT !.vault = TheVault, !.addressCount = 1]
  /\ alarmAt = 0
  /\ msgs = 0
  /\ last = Idle
  /\ tx = NoTx
  /\ broadcasts = {}
  /\ ModulesLoaded
  /\ h = <<Idle>>

MayReceiveUnlock == msgs < MaxMsgsUnlock

NextUnlock ==
  \/ MayReceiveUnlock /\ \E t \in {"UNLOCK_WALLET", "GET_MNEMONIC"}, pw \in Passwords :
                            UnlockWallet(PopupSender, t, pw)
  \/ \E i \in InFlight : RateLimitChecked(i)
  \/ \E i \in InFlight : VaultRead(i)
  \/ \E i \in InFlight : VaultDecrypted(i)
  \/ \E i \in InFlight : SessionSet(i)
  \/ \E i \in InFlight : ResetAutoLockDone(i)
  \/ \E i \in InFlight : AttemptsReset(i)
  \/ \E i \in InFlight : FailedUnlockRead(i)
  \/ \E i \in InFlight : FailedUnlockStored(i)
  \/ \E d \in {TickMs, BASE_LOCKOUT_MS} :
       now + d <= Epoch + UnlockHorizon /\ Tick(d)

SpecUnlock == InitUnlock /\ [][NextUnlock]_vars

\* ------------------------------------------------ the builder specification
\* One call of buildTransaction, buildConversionTransaction or
\* simulateTransaction, on every input of the sets below, run step by step.
UtxoValues == {1000, 15000}

Amounts == {0, 4500, 5000, 10000}

\* sat/kB, as estimateFee returns them
FeeRates == {0, 50001, 100000}

ScriptLens == {150, 200}

\* how a built transaction can decode, per builder: the fields its post-build
\* verification looks at
Decodings(fn) ==
  CASE fn = "buildTransaction" -> {"same", "address", "value"}
    [] fn = "buildConversionTransaction" -> {"same", "value", "change"}
    [] OTHER -> {"same"}

InitBuilder ==
  /\ now = Epoch
  /\ pendingLogins = <<>>
  /\ pendingSends = <<>>
  /\ lastPopupByOrigin = <<>>
  /\ nextId = 1
  /\ windows = {}
  /\ tabMsgs = <<>>
  /\ verifyLog = {}
  /\ claims = <<>>
  /\ expiredIds = {}
  /\ session = UnlockedSession
  /\ local = [EmptyLocal EXCEPT !.vault = TheVault, !.addressCount = 1]
  /\ alarmAt = Epoch + autoLockMs
  /\ msgs = 0
  /\ last = Idle
  /\ h = <<Idle>>
  /\ tx = NoTx
  /\ broadcasts = {}
  /\ ModulesLoaded

NextBuilder ==
  \/ /\ tx.pc = "idle"
     /\ \E fn \in Builders, amt \in Amounts, r \in FeeRates, n \in 0..MaxUtxos :
       \E u \in [1..n -> UtxoValues], d \in Decodings(fn) :
         \/ /\ fn # "buildConversionTransaction"
            /\ \E a \in BOOLEAN : BuilderCalled(BuilderCall(fn, FALSE, a, amt, u, r, 0, d))
         \/ /\ fn = "buildConversionTransaction"
            /\ \E dir \in BOOLEAN, len \in ScriptLens :
                 BuilderCalled(BuilderCall(fn, dir, TRUE, amt, u, r, len, d))
  \/ BuilderStart
  \/ FeeIteration
  \/ BuilderFinish

SpecBuilder == InitBuilder /\ [][NextBuilder]_vars

\* ------------------------------------------------ the lockout specification
\* The wallet is locked and chrome.storage.local holds a failure count left
\* by earlier attempts, the last of them at Epoch; the popup tries passwords
\* one after the other while the clock moves to the ends of the lockout
\* periods and to the millisecond before each.
LockoutClock ==
  {BASE_LOCKOUT_MS * Pow2(k) - e : k \in 0..10, e \in 0..1}
  \cup {MAX_LOCKOUT_MS - e : e \in 0..1}

InitLockout ==
  /\ now = Epoch
  /\ pendingLogins = <<>>
  /\ pendingSends = <<>>
  /\ lastPopupByOrigin = <<>>
  /\ nextId = 1
  /\ windows = {}
  /\ tabMsgs = <<>>
  /\ verifyLog = {}
  /\ claims = <<>>
  /\ expiredIds = {}
  /\ session = NoSession
  /\ \E c \in 0..MaxStoredCount :
       local = [EmptyLocal EXCEPT
                  !.vault = TheVault, !.addressCount = 1,
                  !.attempts = IF c = 0 THEN NoAttempts
                               ELSE [count |-> c, lastFailedAt |-> Epoch]]
  /\ alarmAt = 0
  /\ msgs = 0
  /\ last = Idle
  /\ h = <<Idle>>
  /\ tx = NoTx
  /\ broadcasts = {}
  /\ ModulesLoaded

MayReceiveLockout == msgs < MaxMsgsLockout

NextLockout ==
  \/ MayReceiveLockout /\ \E t \in {"UNLOCK_WALLET", "GET_MNEMONIC"}, pw \in Passwords :
                             UnlockWallet(PopupSender, t, pw)
  \/ \E i \in InFlight : RateLimitChecked(i)
  \/ \E i \in InFlight : VaultRead(i)
  \/ \E i \in InFlight : VaultDecrypted(i)
  \/ \E i \in InFlight : SessionSet(i)
  \/ \E i \in InFlight : ResetAutoLockDone(i)
  \/ \E i \in InFlight : AttemptsReset(i)
  \/ \E i \in InFlight : FailedUnlockRead(i)
  \/ \E i \in InFlight : FailedUnlockStored(i)
  \/ \E t \in LockoutClock : Epoch + t > now /\ Tick(Epoch + t - now)

SpecLockout == InitLockout /\ [][NextLockout]_vars

\* --------------------------------------------------- the send specification
\* Plain transfers: the popup sends SEND_TRANSACTION, a page asks for a send
\* and the popup approves it; the server returns few or no UTXOs or fails, and
\* the built transaction decodes as it was put together or differently.
TransferPayloads ==
  {[addrOk |-> a, amount |-> amt, direct |-> FALSE] :
     a \in BOOLEAN, amt \in {0, 5000}}

Fetches ==
  {[ok |-> ok, utxos |-> u, feeRate |-> 0, scriptLen |-> 0, decoded |-> d] :
     ok \in BOOLEAN, u \in {<<>>, <<1000>>, <<15000>>},
     d \in Decodings("buildTransaction")}

\* what the build of an approved send of 5000 sat comes to
SendBuilds ==
  {RunBuilder(BuilderCall("buildTransaction", FALSE, TRUE, 5000,
                          f.utxos, f.feeRate, 0, f.decoded)) : f \in Fetches}

InitSend == InitUnlocked(1)

MayReceiveSend == msgs < MaxMsgsSend

NextSend ==
  \/ MayReceiveSend /\ \E p \in TransferPayloads :
                          SendMessage(PopupSender, "SEND_TRANSACTION", p)
  \/ MayReceiveSend /\ DappSendRequest(WebSender(1, "a"), [valid |-> TRUE])
  \/ MayReceiveSend /\ \E rid \in 0..nextId - 1 : DappApproveSend(PopupSender, rid)
  \/ \E i \in InFlight : WindowCreated(i, TRUE)
  \/ \E i \in InFlight, amtOk \in BOOLEAN : ApproveSession(i, amtOk)
  \/ \E i \in InFlight, r \in SendBuilds : ApproveBuild(i, r)
  \/ \E i \in InFlight, sent \in BOOLEAN : ApproveBroadcast(i, sent)
  \/ \E i \in InFlight : SendSessionRead(i)
  \/ \E i \in InFlight, f \in Fetches : SendBuilt(i, f)
  \/ \E i \in InFlight, sent \in BOOLEAN : SendBroadcast(i, sent)

SpecSend == InitSend /\ [][NextSend]_vars

\* ---------------------------------------------- the auto-lock specification
\* The wallet is unlocked and the alarm armed; the popup sends transfers, adds
\* addresses and reports user activity while the clock runs up to the alarm.
GoodTransfer == [addrOk |-> TRUE, amount |-> 5000, direct |-> FALSE]

GoodFetch ==
  [ok |-> TRUE, utxos |-> <<15000>>, feeRate |-> 0, scriptLen |-> 0,
   decoded |-> "same"]

InitAutoLock == InitUnlocked(MaxInFlightAutoLock)

MayReceiveAutoLock == msgs < MaxMsgsAutoLock

NextAutoLock ==
  \/ MayReceiveAutoLock /\ SendMessage(PopupSender, "SEND_TRANSACTION", GoodTransfer)
  \/ MayReceiveAutoLock /\ ResetAutoLockMessage(PopupSender)
  \/ MayReceiveAutoLock /\ AccountMessage(PopupSender, "ADD_ADDRESS", 0)
  \/ MayReceiveAutoLock /\ AutoLockAlarm
  \/ \E i \in InFlight : SendSessionRead(i)
  \/ \E i \in InFlight, ok \in BOOLEAN : SendBuilt(i, [GoodFetch EXCEPT !.ok = ok])
  \/ \E i \in InFlight, sent \in BOOLEAN : SendBroadcast(i, sent)
  \/ \E i \in InFlight : ResetSessionRead(i)
  \/ \E i \in InFlight : ResetAutoLockDone(i)
  \/ \E i \in InFlight : AccountSessionRead(i)
  \/ \E i \in InFlight : SessionSet(i)
  \/ \E i \in InFlight : AddressCountStored(i)
  \/ \E i \in InFlight : LockSessionRead(i)
  \/ \E i \in InFlight : SessionCleared(i)
  \/ \E d \in {MinuteMs, alarmAt - now} :
       alarmAt # 0 /\ d > 0 /\ now + d <= alarmAt /\ Tick(d)

SpecAutoLock == InitAutoLock /\ [][NextAutoLock]_vars

\* ----------------------------------------- the multi-currency specification
\* One call of buildCurrencyTransaction, on every input of the sets below, run
\* step by step.
CurrencyUtxos ==
  {[decodes |-> TRUE, type |-> "cryptocondition", cur |-> 3000, sat |-> 0],
   [decodes |-> TRUE, type |-> "cryptocondition", cur |-> 3000, sat |-> 12000],
   [decodes |-> TRUE, type |-> "cryptocondition", cur |-> 5000, sat |-> 0],
   [decodes |-> TRUE, type |-> "cryptocondition", cur |-> 0, sat |-> 20000],
   [decodes |-> TRUE, type |-> "pubkeyhash", cur |-> 0, sat |-> 4000],
   [decodes |-> TRUE, type |-> "pubkeyhash", cur |-> 0, sat |-> 0],
   [decodes |-> FALSE, type |-> "", cur |-> 0, sat |-> 7000]}

CurrencyAmounts == {0, 3000, 5000, 7000}

InitCurrency == InitBuilder

NextCurrency ==
  \/ /\ tx.pc = "idle"
     /\ \E amt \in CurrencyAmounts, n \in 0..MaxCurrencyUtxos, toOk, fromOk \in BOOLEAN :
       \E u \in [1..n -> CurrencyUtxos] :
         CurrencyCalled(CurrencyCall(toOk, fromOk, amt, u))
  \/ CurrencyStart
  \/ CurrencySelect
  \/ NativeSelect
  \/ CurrencyOutputs

SpecCurrency == InitCurrency /\ [][NextCurrency]_vars

\* ------------------------------------------- the verification specification
\* One call of verifyChallengeSignature, on every input of the sets below, run
\* step by step.
EmbeddedHeights == {0, 3, 5, 6, 7}

RecoveryFlags == {0, 26, 27, 28, 30, 31, 32, 34, 35, 255}

\* the signature buffers: well-formed ones, then one of another version, one
\* without signatures, one with a short signature and truncated ones
SignatureBuffers ==
  {IdentitySignature(ver, hgt, 1, 65, f, k) :
     ver \in {1, 2}, hgt \in EmbeddedHeights, f \in RecoveryFlags,
     k \in DOMAIN Signatures}
  \cup {IdentitySignature(3, 1, 1, 65, 31, 1), IdentitySignature(2, 1, 0, 65, 31, 1),
        IdentitySignature(2, 1, 1, 64, 31, 1)}
  \cup {SubSeq(IdentitySignature(2, 1, 1, 65, 31, 1), 1, n) : n \in {0, 1, 4, 7, 8, 40}}

\* what verusid.getIdentity can come to
IdentityResults ==
  {[throws |-> TRUE, primaryaddresses |-> <<>>],
   [throws |-> FALSE, primaryaddresses |-> <<>>],
   [throws |-> FALSE, primaryaddresses |-> <<address("authorized", TRUE)>>],
   [throws |-> FALSE,
    primaryaddresses |-> <<address("other", TRUE), address("authorized", FALSE)>>]}

InitVerify == InitBuilder

NextVerify ==
  \/ /\ verify.pc = "idle"
     /\ \/ \E buf \in SignatureBuffers :
             VerifyCalled([parses |-> TRUE, hasSignature |-> TRUE, signature |-> buf])
        \/ VerifyCalled([parses |-> TRUE, hasSignature |-> FALSE, signature |-> <<>>])
        \/ VerifyCalled([parses |-> FALSE, hasSignature |-> FALSE, signature |-> <<>>])
  \/ VerifyStart
  \/ \E r \in IdentityResults : IdentityFetched(r)
  \/ VerifySearch

SpecVerify == InitVerify /\ [][NextVerify]_vars

\* ------------------------------------------------ the deep-link specification
\* A page sends login deep links whose challenge timestamps lie around the
\* limits of the wallet clock, which is read at the start of a second, at its
\* last millisecond and at the start of the next.
DeeplinkSender == WebSender(1, "a")

DeeplinkClock == {0, 999, 1000}

ChallengeStamps ==
  {-1, 0,
   Epoch \div 1000 - CHALLENGE_MAX_AGE_SEC - 1, Epoch \div 1000 - CHALLENGE_MAX_AGE_SEC,
   Epoch \div 1000 - CHALLENGE_MAX_AGE_SEC + 1, Epoch \div 1000,
   Epoch \div 1000 + MAX_FUTURE_SEC, Epoch \div 1000 + MAX_FUTURE_SEC + 1,
   Epoch \div 1000 + MAX_FUTURE_SEC + 2}

DeeplinkPayloads ==
  {[uriOk |-> TRUE, createdAt |-> c, requestingId |-> TRUE] : c \in ChallengeStamps}

InitDeeplink == InitUnlocked(1)

MayReceiveDeeplink == msgs < MaxMsgsDeeplink

NextDeeplink ==
  \/ MayReceiveDeeplink /\ \E p \in DeeplinkPayloads :
       DappLoginDeeplink(DeeplinkSender, p)
  \/ \E i \in InFlight, hasId \in BOOLEAN : WindowCreated(i, hasId)
  \/ \E t \in DeeplinkClock : Epoch + t > now /\ Tick(Epoch + t - now)

SpecDeeplink == InitDeeplink /\ [][NextDeeplink]_vars

\* ---------------------------------------------------- the proxy specification
\* Logical calls of the proxy client start one after the other and run
\* interleaved at their awaits; every request can succeed or fail.
InitProxy == InitBuilder

NextProxy ==
  \/ Len(calls) < MaxProxyCalls /\ \E fn \in {"proxyGet", "proxyPost"} : ProxyCalled(fn)
  \/ \E c \in DOMAIN calls, out \in {"ok", "http", "throws"} : FetchReturned(c, out)
  \/ \E c \in DOMAIN calls, out \in {"success", "error", "throws"} : JsonReturned(c, out)

SpecProxy == InitProxy /\ [][NextProxy]_vars

\* -------------------------------------------------- the webhook specification
\* One login request at a time from a page of one of several origins, shown
\* and verified in the popup, then approved; the deep link names any of the
\* webhook URLs or none.
WebhookOrigins ==
  {"a", "http://localhost:8000", "http://intranet", "http://[::1]:8000",
   "http://127.0.0.1:8000", "http://127.0.0.2:8000", "https://10.0.0.5",
   "https://172.32.0.1", "https://100.128.0.1", "https://192.0.2.7",
   "https://198.51.100.7"}

WebhookUrls ==
  {"", "not a url", "https://a.example/hook", "https://api.a.example/hook",
   "https://nota.example/hook", "https://b.example/hook",
   "http://a.example/hook", "https://localhost/hook", "https://intranet/hook",
   "https://[::1]/hook", "https://[fd00::1]/hook", "https://127.0.0.1/hook",
   "https://127.0.0.2/hook", "https://0.0.0.0/hook", "https://0.1.2.3/hook",
   "https://10.0.0.5/hook", "https://172.16.0.1/hook",
   "https://172.31.0.1/hook", "https://172.32.0.1/hook",
   "https://192.168.1.1/hook", "https://169.254.169.254/hook",
   "https://100.64.0.1/hook", "https://100.127.0.1/hook",
   "https://100.128.0.1/hook", "https://192.0.2.7/hook",
   "https://198.18.0.1/hook", "https://198.51.100.7/hook",
   "https://203.0.113.7/hook"}

WebhookPayload == [uriOk |-> TRUE, createdAt |-> FreshStamp, requestingId |-> TRUE]

InitWebhook == InitUnlocked(1)

MayReceiveWebhook == msgs < MaxMsgsWebhook

NextWebhook ==
  \/ MayReceiveWebhook /\ \E o \in WebhookOrigins :
                             DappLoginDeeplink(WebSender(1, o), WebhookPayload)
  \/ \E i \in InFlight : WindowCreated(i, TRUE)
  \/ MayReceiveWebhook /\ \E rid \in 1..nextId - 1 : GetPendingLogin(PopupSender, rid)
  \/ \E i \in InFlight, r \in BOOLEAN : VerifyDone(i, r)
  \/ MayReceiveWebhook /\ \E rid \in 1..nextId - 1 : DappApprove(PopupSender, rid)
  \/ \E i \in InFlight : ApproveSession(i, TRUE)
  \/ \E i \in InFlight, r \in BOOLEAN, hook \in WebhookUrls : ApproveHeight(i, r, hook)
  \/ \E i \in InFlight, out \in {"ok", "http", "throw"} : ApprovePost(i, out)

SpecWebhook == InitWebhook /\ [][NextWebhook]_vars

\* ---------------------------------------------------- the vault specification
\* encryptVault, then decryptVault with the same and with another password,
\* over short strings of an ASCII letter, a two-byte letter, the two halves
\* of a surrogate pair and the byte order mark.
CodeUnits == {97, 233, 55357, 56832, 65279}

Strings(n) == UNION {[1..k -> CodeUnits] : k \in 0..n}

Salts == {[k \in 1..SALT_LENGTH |-> b] : b \in {0, 255}}

IVs == {[k \in 1..IV_LENGTH |-> b] : b \in {1, 254}}

InitVault == InitBuilder

NextVault ==
  \/ \E plaintext \in Strings(MaxPlaintextUnits),
        password, other \in Strings(MaxPasswordUnits),
        salt \in Salts, iv \in IVs :
        password # other /\ VaultCalled(plaintext, password, other, salt, iv)
  \/ VaultEncrypt
  \/ VaultDecrypt
  \/ VaultDecryptOther

SpecVault == InitVault /\ [][NextVault]_vars

\* ------------------------------------------------------ the KDF specification
\* The popup tries passwords on a locked wallet whose vault was stored, with
\* ThePassword, by this build or by a build with a lower PBKDF2_ITERATIONS.
StoredIterations == {EarlierIterations, PBKDF2_ITERATIONS}

InitKdf ==
  /\ now = Epoch
  /\ pendingLogins = <<>>
  /\ pendingSends = <<>>
  /\ lastPopupByOrigin = <<>>
  /\ nextId = 1
  /\ windows = {}
  /\ tabMsgs = <<>>
  /\ verifyLog = {}
  /\ claims = <<>>
  /\ expiredIds = {}
  /\ session = NoSession
  /\ \E k \in StoredIterations :
       local = [EmptyLocal EXCEPT
                  !.vault = StoredVault(encryptVaultOf(k, VaultPlaintext,
                                                       ThePassword, TheSalt,
                                                       TheIV), k),
                  !.addressCount = 1]
  /\ alarmAt = 0
  /\ msgs = 0
  /\ last = Idle
  /\ tx = NoTx
  /\ broadcasts = {}
  /\ ModulesLoaded
  /\ h = <<Idle>>

MayReceiveKdf == msgs < MaxMsgsKdf

NextKdf ==
  \/ MayReceiveKdf /\ \E t \in {"UNLOCK_WALLET", "GET_MNEMONIC"}, pw \in Passwords :
                         UnlockWallet(PopupSender, t, pw)
  \/ \E i \in InFlight : RateLimitChecked(i)
  \/ \E i \in InFlight : VaultRead(i)
  \/ \E i \in InFlight : VaultDecrypted(i)
  \/ \E i \in InFlight : SessionSet(i)
  \/ \E i \in InFlight : ResetAutoLockDone(i)
  \/ \E i \in InFlight : AttemptsReset(i)
  \/ \E i \in InFlight : FailedUnlockRead(i)
  \/ \E i \in InFlight : FailedUnlockStored(i)

SpecKdf == InitKdf /\ [][NextKdf]_vars

\* ------------------------------------------- the transaction-cache specification
\* The popup asks for the history of an unlocked wallet, one request after the
\* other; the list fetch succeeds or fails, each detail fetch succeeds with
\* one of two decodings or fails.
TxIds == 1..MaxTxIds

TxEntries ==
  {[txid |-> t, height |-> e[1], confirmed |-> e[2]] :
     t \in TxIds, e \in {<<0, FALSE>>, <<5, TRUE>>, <<9, TRUE>>}}

TxLists ==
  {<<>>} \cup {<<a>> : a \in TxEntries}
         \cup {<<a, b>> : a \in TxEntries, b \in {e \in TxEntries : e.txid = MaxTxIds}}

DecodedDetails == 1..MaxDecoded

InitTxCache == InitUnlocked(1)

MayReceiveTxCache == msgs < MaxMsgsTxCache

NextTxCache ==
  \/ MayReceiveTxCache /\ GetTransactions(PopupSender)
  \/ \E i \in InFlight : TxSessionRead(i)
  \/ \E i \in InFlight, txList \in TxLists : ListFetched(i, txList)
  \/ \E i \in InFlight : ListFailed(i)
  \/ \E i \in InFlight : ListStored(i)
  \/ \E i \in InFlight : ListLoaded(i)
  \/ \E i \in InFlight, k \in 1..MaxTxIds, d \in DecodedDetails \cup {0} : DetailFetched(i, k, d)
  \/ \E i \in InFlight : TxPruned(i)

SpecTxCache == InitTxCache /\ [][NextTxCache]_vars

\* ------------------------------------------------ the balance specification
\* The popup asks for the balance and the currency balances of an unlocked
\* wallet, at once or BALANCE_THROTTLE_MS apart, and may lock the wallet; a
\* fetch gives one of two values or throws.
BalanceValues == {"b1", "b2"}

InitBalance == InitUnlocked(MaxInFlightBalance)

MayReceiveBalance == msgs < MaxMsgsBalance

NextBalance ==
  \/ MayReceiveBalance /\ \E t \in BalanceTypes : GetBalance(PopupSender, t)
  \/ \E i \in InFlight : BalanceSessionRead(i)
  \/ \E i \in InFlight : ThrottledRead(i)
  \/ \E i \in InFlight, b \in BalanceValues \cup {""} : BalanceFetched(i, b)
  \/ \E i \in InFlight : BalanceStored(i)
  \/ \E i \in InFlight : CachedRead(i)
  \/ now < Epoch + BALANCE_THROTTLE_MS /\ Tick(BALANCE_THROTTLE_MS)

SpecBalance == InitBalance /\ [][NextBalance]_vars

\* ----------------------------------------------- the accounts specification
\* The popup creates, imports and unlocks the wallet and adds and switches
\* accounts, the handlers interleaving.  The wallet starts unlocked with one
\* account or, after that many ADD_ADDRESS, with one short of MAX_ACCOUNTS,
\* the first or the last of them active.
StartCounts == {1, MAX_ACCOUNTS - 1}

SwitchIndices == {0, MAX_ACCOUNTS - 1, MAX_ACCOUNTS}

InitAccounts ==
  /\ now = Epoch
  /\ pendingLogins = <<>>
  /\ pendingSends = <<>>
  /\ lastPopupByOrigin = <<>>
  /\ nextId = 1
  /\ windows = {}
  /\ tabMsgs = <<>>
  /\ verifyLog = {}
  /\ claims = <<>>
  /\ expiredIds = {}
  /\ \E n \in StartCounts, a \in SwitchIndices :
       /\ a < n
       /\ session = [present |-> TRUE, accounts |-> deriveAccounts(n),
                     activeIndex |-> a]
       /\ local = [EmptyLocal EXCEPT !.vault = TheVault, !.addressCount = n,
                                     !.activeAddressIndex = a]
  /\ alarmAt = Epoch + autoLockMs
  /\ msgs = 0
  /\ last = Idle
  /\ tx = NoTx
  /\ broadcasts = {}
  /\ ModulesLoaded
  /\ h = [i \in 1..MaxInFlightAccounts |-> Idle]

MayReceiveAccounts == msgs < MaxMsgsAccounts

NextAccounts ==
  \/ MayReceiveAccounts /\ \E t \in {"CREATE_WALLET", "IMPORT_WALLET"}, v \in BOOLEAN :
                              CreateWallet(PopupSender, t, v)
  \/ MayReceiveAccounts /\ \E pw \in Passwords :
                              UnlockWallet(PopupSender, "UNLOCK_WALLET", pw)
  \/ MayReceiveAccounts /\ \E t \in {"ADD_ADDRESS", "SWITCH_ADDRESS"}, k \in SwitchIndices :
                              AccountMessage(PopupSender, t, k)
  \/ \E i \in InFlight : VaultEncrypted(i)
  \/ \E i \in InFlight : VaultStored(i)
  \/ \E i \in InFlight : SessionSet(i)
  \/ \E i \in InFlight : ResetAutoLockDone(i)
  \/ \E i \in InFlight : RateLimitChecked(i)
  \/ \E i \in InFlight : VaultRead(i)
  \/ \E i \in InFlight : VaultDecrypted(i)
  \/ \E i \in InFlight : AttemptsReset(i)
  \/ \E i \in InFlight : FailedUnlockRead(i)
  \/ \E i \in InFlight : FailedUnlockStored(i)
  \/ \E i \in InFlight : AccountSessionRead(i)
  \/ \E i \in InFlight : AddressCountStored(i)
  \/ \E i \in InFlight : ActiveIndexStored(i)
  \/ \E i \in InFlight : BalanceRemoved(i)

SpecAccounts == InitAccounts /\ [][NextAccounts]_vars

\* ---------------------------------------------- the selection specification
\* One call of buildTransaction on a list of up to MaxUtxosSelect UTXOs of
\* small and of large values, in every order, run step by step.
SelectValues == {1000, 15000, 3000000, 50000000}

SelectAmounts == {5000, 10000000, 52000000}

InitSelect == InitBuilder

NextSelect ==
  \/ /\ tx.pc = "idle"
     /\ \E amt \in SelectAmounts, r \in FeeRates, n \in 0..MaxUtxosSelect :
       \E u \in [1..n -> SelectValues] :
         BuilderCalled(BuilderCall("buildTransaction", FALSE, TRUE, amt, u, r, 0, "same"))
  \/ BuilderStart
  \/ FeeIteration
  \/ BuilderFinish

SpecSelect == InitSelect /\ [][NextSelect]_vars

\* ----------------------------------------------- the attempts specification
\* The popup sends UNLOCK_WALLET and GET_MNEMONIC with a wrong password to a
\* locked wallet that has no failure on record, without waiting for the
\* answer to the attempt before.
InitAttempts ==
  /\ now = Epoch
  /\ pendingLogins = <<>>
  /\ pendingSends = <<>>
  /\ lastPopupByOrigin = <<>>
  /\ nextId = 1
  /\ windows = {}
  /\ tabMsgs = <<>>
  /\ verifyLog = {}
  /\ claims = <<>>
  /\ expiredIds = {}
  /\ session = NoSession
  /\ local = [EmptyLocal EXCEPT !.vault = TheVault, !.addressCount = 1]
  /\ alarmAt = 0
  /\ msgs = 0
  /\ last = Idle
  /\ tx = NoTx
  /\ broadcasts = {}
  /\ ModulesLoaded
  /\ h = [i \in 1..MaxInFlightAttempts |-> Idle]

MayReceiveAttempts == msgs < MaxMsgsAttempts

NextAttempts ==
  \/ MayReceiveAttempts /\ \E t \in {"UNLOCK_WALLET", "GET_MNEMONIC"} :
                              UnlockWallet(PopupSender, t, WrongPassword)
  \/ \E i \in InFlight : RateLimitChecked(i)
  \/ \E i \in InFlight : VaultRead(i)
  \/ \E i \in InFlight : VaultDecrypted(i)
  \/ \E i \in InFlight : FailedUnlockRead(i)
  \/ \E i \in InFlight : FailedUnlockStored(i)

SpecAttempts == InitAttempts /\ [][NextAttempts]_vars

\* ------------------------------------------------ the assets specification
\* One call of buildCurrencyTransaction on UTXOs that hold the target
\* currency alone, the target currency and another one, another one alone, or
\* native value only, run step by step.
AssetUtxos ==
  {[decodes |-> TRUE, type |-> "cryptocondition", cur |-> 3000, sat |-> 0, other |-> 0],
   [decodes |-> TRUE, type |-> "cryptocondition", cur |-> 5000, sat |-> 0, other |-> 700],
   [decodes |-> TRUE, type |-> "cryptocondition", cur |-> 2000, sat |-> 12000, other |-> 0],
   [decodes |-> TRUE, type |-> "cryptocondition", cur |-> 0, sat |-> 0, other |-> 900],
   [decodes |-> TRUE, type |-> "pubkeyhash", cur |-> 0, sat |-> 20000, other |-> 0],
   [decodes |-> FALSE, type |-> "", cur |-> 0, sat |-> 7000, other |-> 0]}

AssetAmounts == {2000, 3000, 5000}

InitAssets == InitBuilder

NextAssets ==
  \/ /\ tx.pc = "idle"
     /\ \E amt \in AssetAmounts, n \in 0..MaxAssetUtxos :
       \E u \in [1..n -> AssetUtxos] :
         CurrencyCalled(CurrencyCall(TRUE, TRUE, amt, u))
  \/ CurrencyStart
  \/ CurrencySelect
  \/ NativeSelect
  \/ CurrencyOutputs

SpecAssets == InitAssets /\ [][NextAssets]_vars

\* ================================================================ properties
ApproveTypes == {"DAPP_APPROVE", "DAPP_APPROVE_SEND"}

LoginTypes == {"GET_PENDING_LOGIN", "DAPP_APPROVE", "DAPP_REJECT"}

NotFound(type) == IF type \in LoginTypes THEN "No pending login request"
                  ELSE "No pending send request"

\* a handler in flight that has claimed request id
Claimant(i, type, id) ==
  i \in InFlight /\ h[i].type = type /\ h[i].rid = id

C2_DeletedBeforeAwait ==
  \A i \in InFlight :
    /\ h[i].type = "DAPP_APPROVE" => h[i].rid \notin DOMAIN pendingLogins
    /\ h[i].type = "DAPP_APPROVE_SEND" => h[i].rid \notin DOMAIN pendingSends

\* C2 witness: a login approval is awaiting the webhook POST.
C2_AtWebhookPost ==
  \E i \in InFlight : h[i].type = "DAPP_APPROVE" /\ h[i].pc = "post"

\* C3: a login approval gets past the lookup, and the tab is told of a
\* successful login, only for an id whose signature verification returned
\* true (and never false); an entry is marked verified only after that.
C3_ApprovedOnlyIfVerified ==
  /\ \A i \in InFlight :
       h[i].type = "DAPP_APPROVE" =>
         <<h[i].rid, TRUE>> \in verifyLog /\ <<h[i].rid, FALSE>> \notin verifyLog
  /\ \A k \in DOMAIN tabMsgs :
       (tabMsgs[k].kind = "DAPP_RESPONSE" /\ tabMsgs[k].success) =>
         <<tabMsgs[k].id, TRUE>> \in verifyLog
  /\ (last.type = "DAPP_APPROVE" /\ last.resp = "ok") =>
       <<last.rid, TRUE>> \in verifyLog
  /\ \A id \in DOMAIN pendingLogins :
       pendingLogins[id].signatureVerified = "true" =>
         pendingLogins[id].requestingId /\ <<id, TRUE>> \in verifyLog

\* C3 witness: a verified login has been approved and posted.
C3_LoginApproved ==
  /\ last.type = "DAPP_APPROVE" /\ last.resp = "ok"
  /\ <<last.rid, TRUE>> \in verifyLog

\* C4: a lookup (GET_PENDING_LOGIN, DAPP_APPROVE, GET_PENDING_SEND,
\* DAPP_APPROVE_SEND) of an entry older than 300 s is answered not-found and
\* the entry is gone once the message has been handled, whatever happened
\* between its creation and the lookup.
C4_ExpiredUnreachable ==
  [][msgs' = msgs + 1 =>
       /\ \A id \in DOMAIN pendingLogins :
            (/\ now - pendingLogins[id].createdAt > PENDING_LOGIN_TTL_MS
             /\ Arrived.type \in {"GET_PENDING_LOGIN", "DAPP_APPROVE"}
             /\ Arrived.rid = id)
            => /\ h' = h
               /\ Arrived.resp = "No pending login request"
               /\ id \notin DOMAIN pendingLogins'
       /\ \A id \in DOMAIN pendingSends :
            (/\ now - pendingSends[id].createdAt > PENDING_LOGIN_TTL_MS
             /\ Arrived.type \in {"GET_PENDING_SEND", "DAPP_APPROVE_SEND"}
             /\ Arrived.rid = id)
            => /\ h' = h
               /\ Arrived.resp = "No pending send request"
               /\ id \notin DOMAIN pendingSends']_vars

\* C4 witness: the first message after the one that created a send request is
\* its approval, more than 300 s later; it purged the entry and found nothing.
C4_ExpiredLookedUp ==
  /\ msgs = 2
  /\ last.type = "DAPP_APPROVE_SEND"
  /\ last.rid \in expiredIds
  /\ last.resp = "No pending send request"

\* the entries of registry m that are not older than the TTL
Unexpired(m) ==
  {id \in DOMAIN m : now - m[id].createdAt <= PENDING_LOGIN_TTL_MS}

\* C5: neither registry ever holds more than 10 entries; a request that
\* arrives when its registry holds 10 unexpired entries is answered with a
\* failure, creates no entry and opens no window.
C5_Capacity ==
  /\ [](/\ Cardinality(DOMAIN pendingLogins) <= MAX_PENDING_LOGINS
        /\ Cardinality(DOMAIN pendingSends) <= MAX_PENDING_LOGINS)
  /\ [][msgs' = msgs + 1 =>
          /\ (/\ Arrived.type = "DAPP_LOGIN_DEEPLINK"
              /\ Cardinality(Unexpired(pendingLogins)) >= MAX_PENDING_LOGINS)
             => /\ h' = h /\ Arrived.resp # "ok"
                /\ DOMAIN pendingLogins' \subseteq DOMAIN pendingLogins
                /\ nextId' = nextId
          /\ (/\ Arrived.type = "DAPP_SEND_REQUEST"
              /\ Cardinality(Unexpired(pendingSends)) >= MAX_PENDING_LOGINS)
             => /\ h' = h /\ Arrived.resp # "ok"
                /\ DOMAIN pendingSends' \subseteq DOMAIN pendingSends
                /\ nextId' = nextId]_vars

\* C5 witness: an eleventh send request, outside the cooldown, has been
\* refused because ten are pending.
C5_Full ==
  /\ last.type = "DAPP_SEND_REQUEST"
  /\ last.resp = "Too many pending send requests"
  /\ Cardinality(DOMAIN pendingSends) = MAX_PENDING_LOGINS

\* the entry a step has added to a registry under the id nextId
NewEntry ==
  IF nextId \in DOMAIN pendingLogins' THEN pendingLogins'[nextId]
  ELSE pendingSends'[nextId]

RequestTypes == {"DAPP_LOGIN_DEEPLINK", "DAPP_SEND_REQUEST"}

\* C6: lastPopupByOrigin holds the time of the origin's last accepted
\* request; a request is accepted (an entry created, its handler going on to
\* open the window) only 3 s or more after that time, and is otherwise
\* answered with a failure; two entries of one origin, of either kind, are
\* never created less than 3 s apart.
C6_Cooldown ==
  /\ [](\A a \in DOMAIN pendingLogins \cup DOMAIN pendingSends :
        \A b \in DOMAIN pendingLogins \cup DOMAIN pendingSends :
          LET ea == IF a \in DOMAIN pendingLogins THEN pendingLogins[a]
                    ELSE pendingSends[a]
              eb == IF b \in DOMAIN pendingLogins THEN pendingLogins[b]
                    ELSE pendingSends[b]
          IN (a # b /\ ea.origin = eb.origin /\ ea.createdAt <= eb.createdAt)
             => eb.createdAt - ea.createdAt >= POPUP_COOLDOWN_MS)
  /\ [][/\ nextId' # nextId =>
             /\ now - Lookup(lastPopupByOrigin, NewEntry.origin, 0)
                  >= POPUP_COOLDOWN_MS
             /\ lastPopupByOrigin'[NewEntry.origin] = now
             /\ NewEntry.createdAt = now
        /\ lastPopupByOrigin' # lastPopupByOrigin => nextId' # nextId
        /\ \A i \in DOMAIN h :
             (h'[i].pc = "window" /\ h[i].pc # "window") => nextId' # nextId
        /\ (msgs' = msgs + 1 /\ Arrived.type \in RequestTypes /\ nextId' = nextId)
             => (h' = h /\ Arrived.resp # "ok"
                 /\ DOMAIN pendingLogins' \subseteq DOMAIN pendingLogins
                 /\ DOMAIN pendingSends' \subseteq DOMAIN pendingSends)]_vars

\* C6 witness: a login request has been refused for the cooldown that a send
\* request of the same page, still pending, had started.
C6_Rejected ==
  /\ last.type = "DAPP_LOGIN_DEEPLINK"
  /\ last.resp = "Please wait before making another request"
  /\ pendingLogins = <<>>
  /\ \E id \in DOMAIN pendingSends :
       now - pendingSends[id].createdAt < POPUP_COOLDOWN_MS

FailureMsg(kind, id, e) ==
  [tab |-> e.tabId, kind |-> kind, id |-> id, success |-> FALSE, reqId |-> e.reqId]

\* the step answers the tab of entry e with one failure and deletes the entry
RejectedFrom(m, mNext, kind, id) ==
  /\ tabMsgs' = Append(tabMsgs, FailureMsg(kind, id, m[id]))
  /\ id \notin DOMAIN mNext

Privileged(hd) ==
  hd.type # "" /\ ~hd.popup /\ hd.type \notin CONTENT_SCRIPT_ALLOWLIST

\* C8: a message from a web page with a type outside DAPP_LOGIN_DEEPLINK,
\* DAPP_SEND_REQUEST and PING never has a handler in flight; it is answered
\* 'Unauthorized sender' and changes nothing but the purge of expired
\* entries that precedes the sender check.
C8_Gate ==
  [][/\ \A i \in DOMAIN h' : ~Privileged(h'[i])
     /\ (msgs' = msgs + 1 /\ h' = h /\ Privileged(last')) =>
          /\ last'.resp = "Unauthorized sender"
          /\ pendingLogins' = PL
          /\ pendingSends' = PS
          /\ UNCHANGED <<restVars, walletVars>>]_vars

\* C8 witness: a web page's DAPP_APPROVE has been refused while a verified
\* login request was pending.
C8_Refused ==
  /\ last.type = "DAPP_APPROVE" /\ ~last.popup
  /\ last.resp = "Unauthorized sender"
  /\ \E id \in DOMAIN pendingLogins : pendingLogins[id].signatureVerified = "true"

\* C9: the session goes from absent to present only by the setSession of a
\* CREATE_WALLET, IMPORT_WALLET or UNLOCK_WALLET handler.
C9_SessionOnlyAfterUnlock ==
  [][(~session.present /\ session'.present) =>
       \E i \in DOMAIN h :
         /\ h[i].pc = "setSession" /\ h'[i] # h[i]
         /\ h[i].type \in SessionTypes]_vars

\* C10: an attempt whose rate-limit check finds a stored count of 5 and a
\* last failure less than 5 s old returns the lockout message there, before
\* the vault is read or decrypted, and leaves the counter alone; each wrong
\* password raises the stored count by one; an UNLOCK_WALLET or GET_MNEMONIC
\* that returns success leaves the counter removed (count 0).
C10_Lockout ==
  [][\A i \in DOMAIN h :
       /\ (/\ h[i].pc = "rateLimit" /\ h'[i] # h[i]
           /\ local.attempts.count = MAX_ATTEMPTS_BEFORE_LOCKOUT
           /\ now - local.attempts.lastFailedAt < BASE_LOCKOUT_MS)
          => /\ h'[i] = Idle
             /\ last'.resp = "Too many failed attempts"
             /\ local' = local /\ session' = session
       /\ (h[i].pc = "recordSet" /\ h'[i] # h[i])
          => /\ last'.resp = "Incorrect password"
             /\ local'.attempts.count = local.attempts.count + 1
             /\ local'.attempts.lastFailedAt <= now
       /\ (/\ h[i].type \in {"UNLOCK_WALLET", "GET_MNEMONIC"}
           /\ h[i] # Idle /\ h'[i] = Idle /\ last'.resp = "ok")
          => local'.attempts = NoAttempts]_vars

\* C10 witness: five wrong passwords, then a sixth attempt within 5 s of the
\* fifth failure, refused with the counter still at 5.
C10_SixthRefused ==
  /\ msgs = 6
  /\ last.resp = "Too many failed attempts"
  /\ local.attempts.count = MAX_ATTEMPTS_BEFORE_LOCKOUT
  /\ now - local.attempts.lastFailedAt < BASE_LOCKOUT_MS

\* ------------------------------------------------- the transaction builders
\* the builder that runs is one of the two that build and sign
Building == tx.fn \in {"buildTransaction", "buildConversionTransaction"}

\* the builder has returned a transaction (simulateTransaction: valid: true)
Returned(t) == t.pc = "done" /\ t.err = ""

\* the step calls selectUTXOs
Selecting ==
  \/ tx.pc = "start" /\ (tx'.pc = "loop" \/ tx'.err = "Insufficient funds")
  \/ tx.pc = "loop" /\ tx'.fee > tx.fee

\* how often v occurs in s
Occurrences(s, v) == Cardinality({k \in DOMAIN s : s[k] = v})

\* C14: whenever a builder calls selectUTXOs with a target, the call succeeds
\* if the values of all UTXOs sum to the target or more, and then the
\* selected UTXOs are among the listed ones and their values sum to the
\* returned total, which is the target or more; it fails with the
\* insufficient-funds error if the values of all UTXOs sum to less.
C14_SelectUTXOs ==
  [][Selecting =>
       LET target == outputValue(tx) + tx'.fee IN
       IF SumSeq(tx.utxos) >= target
       THEN /\ tx'.err = ""
            /\ tx'.total = SumSeq(tx'.selected)
            /\ tx'.total >= target
            /\ \A v \in UtxoValues :
                 Occurrences(tx'.selected, v) <= Occurrences(tx.utxos, v)
       ELSE tx'.pc = "done" /\ tx'.err = "Insufficient funds"]_vars

\* C14 witness: a selection of some of the UTXOs whose values sum to exactly
\* the target, from a list that was not sorted.
C14_ExactCover ==
  /\ tx.pc = "loop"
  /\ Len(tx.selected) < Len(tx.utxos)
  /\ tx.total = outputValue(tx) + tx.fee
  /\ tx.utxos # SortDesc(tx.utxos)

\* C15: the fee-fitting loop of the three builders runs its body at most five
\* times and then ends; the fee starts at 10,000 and no run of the body
\* lowers it.
C15_FeeLoop ==
  /\ [](tx.iters <= 5)
  /\ [][/\ (tx.pc = "start" /\ tx'.pc = "loop") => tx'.fee = 10000
        /\ tx.pc = "loop" => /\ tx'.fee >= tx.fee
                             /\ tx.fee >= 10000
                             /\ tx.iters = 5 => tx'.pc = "change"]_vars

\* C15 witness: the loop has raised the fee five times and ended at its bound.
C15_FiveRaises ==
  /\ tx.pc = "change"
  /\ tx.iters = 5
  /\ Len(tx.selected) = 6

\* ceiling(n / d) for n >= 0, d > 0
Ceiling(n, d) == (n + d - 1) \div d

\* C16: a run of the loop body computes max(10,000, ceiling(size * feeRate /
\* 1000)) with size = 148 per input + 34 per P2PKH output + 10 (conversion:
\* + script length + 8 for output 0) and makes it the fee if it is above the
\* fee so far.
C16_FeeFormula ==
  [][(tx.pc = "loop" /\ tx.i < 5) =>
       LET n == Len(tx.selected)
           size == IF tx.fn = "buildConversionTransaction"
                   THEN 148 * n + (tx.scriptLen + 8) + 34 + 10
                   ELSE 148 * n + 2 * 34 + 10
           fee == Max(10000, Ceiling(size * tx.feeRate, 1000))
       IN tx'.fee = Max(tx.fee, fee)]_vars

\* C17 as stated: when buildTransaction or buildConversionTransaction returns,
\* with change = total - amount - fee: change <= 1000 gives one output and
\* the fee raised by the change; change > 1000 gives two outputs, the second
\* paying the change to the sender.
C17_ChangeFoldingByAmount ==
  [][(Building /\ tx.pc = "change" /\ Returned(tx')) =>
       LET change == tx.total - tx.amount - tx.fee IN
       IF change <= 1000
       THEN Len(tx'.outs) = 1 /\ tx'.fee = tx.fee + change
       ELSE /\ Len(tx'.outs) = 2
            /\ tx'.outs[2] = [to |-> "sender", value |-> change]
            /\ tx'.fee = tx.fee]_vars

\* C17: when buildTransaction or buildConversionTransaction returns, with
\* change = total - (value of output 0) - fee, where output 0 is worth the
\* amount (conversion: the amount plus the transfer fee): change <= 1000 gives one output
\* and the fee raised by the change; change > 1000 gives two outputs, the
\* second paying the change to the sender.
C17_ChangeFolding ==
  [][(Building /\ tx.pc = "change" /\ Returned(tx')) =>
       LET change == tx.total - outputValue(tx) - tx.fee IN
       IF change <= 1000
       THEN Len(tx'.outs) = 1 /\ tx'.fee = tx.fee + change
       ELSE /\ Len(tx'.outs) = 2
            /\ tx'.outs[2] = [to |-> "sender", value |-> change]
            /\ tx'.fee = tx.fee]_vars

\* C17 witness: a returned transaction with one output whose fee took up a
\* change of 500.
C17_DustFolded ==
  /\ Building /\ Returned(tx)
  /\ Len(tx.outs) = 1
  /\ tx.total - outputValue(tx) - tx.fee = 0
  /\ tx.fee = 10500

SumOuts(outs) == SumSeq([k \in DOMAIN outs |-> outs[k].value])

\* C18: a transaction that buildTransaction or buildConversionTransaction
\* returns has inputs worth exactly its outputs plus its fee, and a fee of at
\* least 10,000; a builder that is past a selection holds a total that covers
\* the value of output 0 plus the fee.
C18_ValueConserved ==
  /\ [](Building /\ Returned(tx) =>
          /\ tx.total = SumSeq(tx.selected)
          /\ tx.total = SumOuts(tx.outs) + tx.fee
          /\ tx.fee >= 10000)
  /\ [](Building /\ tx.pc \in {"loop", "change"} =>
          tx.total >= outputValue(tx) + tx.fee)

\* C18 witness: a returned transaction of several inputs with a change output
\* and a fee above the minimum.
C18_ReturnedWithChange ==
  /\ Building /\ Returned(tx)
  /\ Len(tx.selected) >= 2
  /\ Len(tx.outs) = 2
  /\ tx.fee > 10000

\* C20: a transaction that buildConversionTransaction returns has output 0
\* worth the amount plus 10,000 (direct) or 20,000 (via a basket) at every fee
\* rate, inputs that cover output 0 plus the fee, and a second output, if any,
\* that pays the sender.
C20_ConversionOutput ==
  (tx.fn = "buildConversionTransaction" /\ Returned(tx)) =>
    /\ tx.outs[1].value = tx.amount + (IF tx.direct THEN 10000 ELSE 20000)
    /\ tx.total >= tx.outs[1].value + tx.fee
    /\ Len(tx.outs) = 2 => tx.outs[2].to = "sender"

\* C20 witness: a two-hop conversion returned with a change output at a fee
\* rate that raised the fee.
C20_TwoHopReturned ==
  /\ tx.fn = "buildConversionTransaction" /\ Returned(tx)
  /\ ~tx.direct
  /\ Len(tx.outs) = 2
  /\ tx.fee > 10000

\* ------------------------------------------------------ the lockout duration
\* 5 s at five failures, doubled by each further failure, never above 1 hour
RECURSIVE Doubled(_)
Doubled(c) ==
  IF c <= 5 THEN 5000
  ELSE IF 2 * Doubled(c - 1) > 3600000 THEN 3600000 ELSE 2 * Doubled(c - 1)

\* C11: with a stored failure count c >= 5 the lockout lasts 5 s doubled for
\* each failure above five and at most 1 hour: the rate-limit check refuses an
\* attempt exactly when c >= 5 and less than that time has passed since the
\* last failure; with c < 5 it refuses none.
C11_LockoutDuration ==
  /\ [](local.attempts.count >= 5 =>
          /\ lockoutMs(local.attempts.count) = Doubled(local.attempts.count)
          /\ lockoutMs(local.attempts.count) <= 3600000)
  /\ [][\A i \in DOMAIN h :
          (h[i].pc = "rateLimit" /\ h'[i] # h[i]) =>
            ((h'[i] = Idle /\ last'.resp = "Too many failed attempts")
             <=> (/\ local.attempts.count >= 5
                  /\ now - local.attempts.lastFailedAt
                       < Doubled(local.attempts.count)))]_vars

\* C11 witness: an attempt refused one millisecond before the hour is over,
\* with a count whose doubled time is above one hour.
C11_RefusedAtCap ==
  /\ last.resp = "Too many failed attempts"
  /\ local.attempts.count >= 15
  /\ now - local.attempts.lastFailedAt = 3600000 - 1

\* ------------------------------------------------------------- the auto-lock
\* the 'auto-lock' alarm fires: its listener is entered
AlarmFires ==
  /\ alarmAt # 0 /\ alarmAt' = 0
  /\ \E i \in DOMAIN h : h[i] = Idle /\ h'[i].type = "ALARM"

\* a privileged request that found the wallet unlocked
HandledUnlocked(hd) ==
  /\ hd.type \in {"SEND_TRANSACTION", "RESET_AUTO_LOCK"}
  /\ hd.sess.present

\* C12: the alarm fires no earlier than autoLockMinutes (5 minutes) after the
\* arrival of any privileged request that arrived before the alarm was due
\* and was handled while the wallet was unlocked.
C12_AlarmAfterRequest ==
  [][AlarmFires =>
       \A i \in DOMAIN h :
         (HandledUnlocked(h[i]) /\ h[i].t < alarmAt)
           => now >= h[i].t + 5 * 60000]_vars

\* the alarm has fired and its listener has returned
AutoLocked == alarmAt = 0 /\ \A i \in DOMAIN h : h[i].type # "ALARM"

\* C13: the alarm's listener removes the session; a send handler that holds
\* the session it read goes on to build and broadcast whatever the session
\* storage holds by then; a handler that reads the session after the listener
\* has returned fails with 'Wallet is locked'.
C13_AutoLockTimeout ==
  [][\A i \in DOMAIN h :
       /\ (h[i].type = "ALARM" /\ h[i].pc = "clear" /\ h'[i] # h[i])
          => session' = NoSession
       /\ (h[i].type \in SendTypes /\ h[i].pc = "fetch" /\ h'[i] # h[i])
          => \/ h'[i].pc = "broadcast"
             \/ h'[i] = Idle /\ last'.resp # "Wallet is locked"
       /\ (h[i].type \in SendTypes /\ h[i].pc = "broadcast" /\ h'[i] # h[i])
          => broadcasts' = broadcasts \cup {h[i].build}
       /\ (/\ AutoLocked
           /\ h[i].pc \in {"sendSession", "resetSession", "getSession"}
           /\ h'[i] # h[i])
          => h'[i] = Idle /\ last'.resp = "Wallet is locked"]_vars

\* ---------------------------------------------------------- plain transfers
TransferTypes == {"SEND_TRANSACTION", "DAPP_APPROVE_SEND"}

\* r is a transaction a builder returned whose output 0 pays the requested
\* amount to the requested recipient
PaysAsRequested(r) ==
  /\ r.pc = "done" /\ r.err = ""
  /\ r.outs[1] = [to |-> "recipient", value |-> r.amount]

\* C19: what is handed to broadcastTransaction is a transaction the builder
\* returned, with output 0 paying the requested amount to the requested
\* recipient; a transfer whose payload is invalid or whose build fails (no
\* UTXOs, insufficient funds, post-build mismatch, failed fetch) returns a
\* failure and hands over nothing.
C19_BroadcastOnlyVerified ==
  /\ [](\A b \in broadcasts : PaysAsRequested(b))
  /\ [](\A i \in DOMAIN h : h[i].pc = "broadcast" => PaysAsRequested(h[i].build))
  /\ [][\A i \in DOMAIN h :
          /\ broadcasts' # broadcasts =>
               \E j \in DOMAIN h : /\ h[j].type \in TransferTypes
                                   /\ h[j].pc = "broadcast"
                                   /\ broadcasts' = broadcasts \cup {h[j].build}
          /\ (/\ h[i].type \in TransferTypes
              /\ h[i].pc \in {"sendSession", "fetch", "build"}
              /\ h'[i] = Idle)
             => last'.resp # "ok" /\ broadcasts' = broadcasts
          /\ (/\ h[i].type = "SEND_TRANSACTION" /\ h[i].pc = "sendSession"
              /\ (h[i].build.amount <= 0 \/ ~h[i].build.addrOk)
              /\ h'[i] # h[i])
             => h'[i] = Idle]_vars

\* C19 witness: a transfer was broadcast, and the next one, whose built
\* transaction did not decode as requested, failed and was not.
C19_MismatchDiscarded ==
  /\ last.type = "SEND_TRANSACTION"
  /\ last.resp = "TX verification failed"
  /\ Cardinality(broadcasts) = 1
  /\ InFlight = {}

\* ------------------------------------------------------ multi-currency send
ValidationErrors ==
  {"Invalid amount: must be a positive safe integer", "Invalid recipient address",
   "Invalid sender address"}

\* buildCurrencyTransaction is past its selection of currency UTXOs
CurrencySelected ==
  /\ tx.pc \in {"native", "outputs", "done"}
  /\ tx.err \notin ValidationErrors

\* buildCurrencyTransaction is past its selection of P2PKH UTXOs
NativeSelected ==
  /\ tx.pc \in {"outputs", "done"}
  /\ tx.err \in {"", "Insufficient VRSC for mining fee"}

\* s holds the UTXOs of all in another order
SameUtxos(s, all) ==
  /\ Len(s) = Len(all)
  /\ \A u \in CurrencyUtxos :
       Cardinality({i \in DOMAIN s : s[i] = u})
         = Cardinality({i \in DOMAIN all : all[i] = u})

OutsOf(kind, to) ==
  {i \in DOMAIN tx.outs : tx.outs[i].kind = kind /\ tx.outs[i].to = to}

\* C21: the UTXOs that hold the currency are taken largest first until their
\* currency total covers the amount, and the build fails when all of them do
\* not; P2PKH UTXOs are taken, largest first, only when the selected currency
\* UTXOs carry less than 10,000 satoshis and only until the native total
\* reaches 10,000, and the build fails when it cannot; a returned transaction
\* pays the amount to the recipient, has a currency change output exactly when
\* the currency total exceeds the amount, and a native change output exactly
\* when the native total less 10,000 exceeds 1000.
C21_CurrencySend ==
  /\ CurrencySelected =>
       LET k == Len(tx.selectedCC) IN
       /\ SameUtxos(tx.ccUtxos, SelectSeq(tx.utxos, isCC))
       /\ \A i \in 1..Len(tx.ccUtxos) - 1 : tx.ccUtxos[i].cur >= tx.ccUtxos[i + 1].cur
       /\ tx.selectedCC = SubSeq(tx.ccUtxos, 1, k)
       /\ tx.totalCurrency = SumCur(tx.selectedCC)
       /\ k > 0 => SumCur(SubSeq(tx.ccUtxos, 1, k - 1)) < tx.amount
       /\ tx.totalCurrency >= tx.amount \/ k = Len(tx.ccUtxos)
       /\ tx.err = "Insufficient balance" <=> SumCur(SelectSeq(tx.utxos, isCC)) < tx.amount
  /\ NativeSelected =>
       LET k == Len(tx.selectedP2PKH)
           fromCC == SumSat(tx.selectedCC)
       IN
       /\ SameUtxos(tx.p2pkhUtxos, SelectSeq(tx.utxos, isP2PKH))
       /\ \A i \in 1..Len(tx.p2pkhUtxos) - 1 :
            tx.p2pkhUtxos[i].sat >= tx.p2pkhUtxos[i + 1].sat
       /\ tx.selectedP2PKH = SubSeq(tx.p2pkhUtxos, 1, k)
       /\ tx.totalVrsc = fromCC + SumSat(tx.selectedP2PKH)
       /\ k > 0 <=> fromCC < MIN_FEE /\ tx.p2pkhUtxos # <<>>
       /\ k > 0 => fromCC + SumSat(SubSeq(tx.p2pkhUtxos, 1, k - 1)) < MIN_FEE
       /\ tx.totalVrsc >= MIN_FEE \/ k = Len(tx.p2pkhUtxos)
       /\ tx.err = "Insufficient VRSC for mining fee" <=>
            fromCC + SumSat(SelectSeq(tx.utxos, isP2PKH)) < MIN_FEE
  /\ (tx.pc = "done" /\ tx.err = "" /\ tx.fn = "buildCurrencyTransaction") =>
       /\ tx.outs[1] = [to |-> "recipient", kind |-> "reserve", amount |-> tx.amount]
       /\ OutsOf("reserve", "recipient") = {1}
       /\ tx.totalCurrency >= tx.amount
       /\ tx.totalVrsc >= MIN_FEE
       /\ tx.selectedP2PKH # <<>> <=> SumSat(tx.selectedCC) < MIN_FEE
       /\ IF tx.totalCurrency > tx.amount
          THEN \E i \in DOMAIN tx.outs :
                 /\ OutsOf("reserve", "sender") = {i}
                 /\ tx.outs[i].amount = tx.totalCurrency - tx.amount
          ELSE OutsOf("reserve", "sender") = {}
       /\ IF tx.totalVrsc - 10000 > 1000
          THEN \E i \in DOMAIN tx.outs :
                 /\ OutsOf("native", "sender") = {i}
                 /\ tx.outs[i].amount = tx.totalVrsc - 10000
          ELSE OutsOf("native", "sender") = {}

\* the currency UTXOs sum to exactly the amount and carry no native value: the
\* transaction returned has no currency change and spends a P2PKH UTXO
C21_ExactAmountFeeFromP2PKH ==
  /\ tx.pc = "done" /\ tx.err = "" /\ tx.fn = "buildCurrencyTransaction"
  /\ tx.totalCurrency = tx.amount
  /\ SumSat(tx.selectedCC) = 0
  /\ Len(tx.selectedP2PKH) = 2
  /\ tx.totalVrsc = MIN_FEE + DUST_THRESHOLD
  /\ Len(tx.outs) = 1

\* ------------------------------------------------- signature verification
\* the run went past the decoding of the signature buffer
Searching == verify.pc \in {"search", "done"} /\ verify.primaryAddresses # <<>>

\* candidate c recovers an address of the identity's list
Matches(c) ==
  LET r == recoveredAddress(verify.compactSig, verify.recoveryBit,
                            verify.compressed, c)
  IN ~r.throws /\ \E i \in DOMAIN verify.primaryAddresses :
                    verify.primaryAddresses[i] = r.address

\* every non-negative height within 5 of the embedded height, with both hash
\* versions
NearbyHeights ==
  {[hashVersion |-> ver, h |-> hgt] :
     ver \in {1, 2},
     hgt \in {x \in 0..verify.sigBlockHeight + 5 : x >= verify.sigBlockHeight - 5}}

\* the heights the function visits: the embedded one and the positive ones
\* within 5 of it
VisitedHeights ==
  {c \in NearbyHeights : c.h > 0 \/ c.h = verify.sigBlockHeight}

\* C22: when some pair of a non-negative height within 5 of the embedded
\* height and a hash version recovers an address of the authorized list, the
\* verification returns true.
C22_NearbyHeightAccepted ==
  (Searching /\ verify.pc = "done" /\ \E c \in NearbyHeights : Matches(c))
    => verify.result = "true"

\* C23: verifyChallengeSignature never throws; it returns true only when a
\* pair of the heights it visits and a hash version recovers an address of
\* the authorized list, and false when none does, when the request has no
\* signature, when the identity lookup fails or gives no address and when the
\* signature buffer cannot be decoded.
C23_TrueOnlyIfAuthorized ==
  /\ ~verify.threw
  /\ verify.pc = "done" => verify.result \in {"true", "false"}
  /\ (verify.pc = "done" /\ verify.result = "true") =>
       /\ Searching
       /\ \E c \in verify.tried : c \in VisitedHeights /\ Matches(c)
  /\ (verify.pc = "done" /\ ~Searching) => verify.result = "false"
  /\ (verify.pc = "done" /\ Searching /\ ~\E c \in VisitedHeights : Matches(c))
       => verify.result = "false"
  /\ verify.pc # "idle" => verify.tried \subseteq VisitedHeights

\* the authorized key is found with the hash version the signature does not
\* declare
C23_FoundWithOtherVersion ==
  /\ verify.pc = "done" /\ verify.result = "true"
  /\ Cardinality(verify.tried) > 11

\* C24: a first byte f of the compact signature in 27..30 gives an
\* uncompressed key and the recovery bits f - 27, one in 31..34 a compressed
\* key and the recovery bits f - 31, and with any other byte the verification
\* returns false without a recovery.
C24_RecoveryFlag ==
  (verify.pc # "idle" /\ verify.decoded) =>
    LET f == verify.recoveryFlag IN
    /\ f \in 27..30 =>
         /\ Searching
         /\ ~verify.compressed /\ verify.recoveryBit = f - 27
    /\ f \in 31..34 =>
         /\ Searching
         /\ verify.compressed /\ verify.recoveryBit = f - 31
    /\ f \in 27..34 => verify.recoveryBit \in 0..3
    /\ f \notin 27..34 =>
         verify.pc = "done" /\ verify.result = "false" /\ verify.tried = {}

\* the largest flag: a compressed key and recovery bits 3
C24_CompressedFlag ==
  /\ verify.pc = "search" /\ verify.decoded
  /\ verify.recoveryFlag = 34 /\ verify.compressed /\ verify.recoveryBit = 3

\* ------------------------------------------------------ challenge timestamp
TimestampErrors ==
  {"Challenge missing timestamp", "Challenge timestamp is in the future",
   "Challenge expired"}

\* the timestamp is positive and within [now - 300 s, now + 60 s] of the
\* wallet clock, in whole seconds
WithinWindow(t, createdAt) ==
  /\ createdAt > 0
  /\ createdAt >= nowSec(t) - 300
  /\ createdAt <= nowSec(t) + 60

\* C25: a login deep link whose challenge timestamp is absent or not
\* positive, more than 60 s ahead of the wallet clock or more than 300 s
\* behind it is answered with a failure, creates no pending entry and opens
\* no window; a timestamp within [now - 300 s, now + 60 s] passes the check.
C25_ChallengeTimestamp ==
  /\ [](\A id \in DOMAIN pendingLogins :
          WithinWindow(pendingLogins[id].createdAt, pendingLogins[id].challengeAt))
  /\ [][\A p \in DeeplinkPayloads :
          DappLoginDeeplink(DeeplinkSender, p) =>
            IF WithinWindow(now, p.createdAt)
            THEN Arrived.resp \notin TimestampErrors
            ELSE /\ Arrived.pc = "done" /\ Arrived.resp \in TimestampErrors
                 /\ pendingLogins' = pendingLogins
                 /\ windows' = windows /\ nextId' = nextId
                 /\ h' = h]_vars

\* a challenge exactly 300 s old was accepted, then one 61 s ahead refused
C25_LimitsMet ==
  /\ \E id \in DOMAIN pendingLogins :
       pendingLogins[id].challengeAt = nowSec(pendingLogins[id].createdAt) - 300
  /\ last.type = "DAPP_LOGIN_DEEPLINK"
  /\ last.resp = "Challenge timestamp is in the future"
  /\ Cardinality(DOMAIN pendingLogins) = 1

\* --------------------------------------------------------- indexer failover
Servers == {PROXY_SERVERS[k] : k \in DOMAIN PROXY_SERVERS}

\* C26: a logical call makes at most 4 attempts, sends no two of them to the
\* same endpoint, ends with the first successful response, and throws only
\* when it has tried all 4 endpoints, also when calls run interleaved.
C26_EachEndpointOnce ==
  \A c \in DOMAIN calls :
    LET t == calls[c].tried IN
    /\ Len(t) <= 4
    /\ \A a, b \in DOMAIN t : a # b => t[a] # t[b]
    /\ calls[c].result = "throws" => {t[a] : a \in DOMAIN t} = Servers
    /\ calls[c].result = "returns" => calls[c].pc = "done"

\* ------------------------------------------------------ webhook destination
\* a dotted-decimal IPv4 hostname
IsIPv4(hn) == Len(hn) = 4 /\ \A k \in DOMAIN hn : hn[k] \in Decimals(0, 255)

\* localhost and 127.0.0.0/8
LoopbackHost(hn) == hn = <<"localhost">> \/ (IsIPv4(hn) /\ hn[1] = "127")

\* 10.0.0.0/8, 172.16.0.0/12, 192.168.0.0/16
PrivateHost(hn) ==
  /\ IsIPv4(hn)
  /\ \/ hn[1] = "10"
     \/ hn[1] = "172" /\ hn[2] \in Decimals(16, 31)
     \/ hn[1] = "192" /\ hn[2] = "168"

\* 169.254.0.0/16
LinkLocalHost(hn) == IsIPv4(hn) /\ hn[1] = "169" /\ hn[2] = "254"

\* 100.64.0.0/10
CgnatHost(hn) == IsIPv4(hn) /\ hn[1] = "100" /\ hn[2] \in Decimals(64, 127)

\* 192.0.2.0/24, 198.51.100.0/24, 203.0.113.0/24
DocumentationHost(hn) ==
  /\ IsIPv4(hn)
  /\ SubSeq(hn, 1, 3) \in {<<"192", "0", "2">>, <<"198", "51", "100">>,
                           <<"203", "0", "113">>}

AllowedWebhook(hook, origin) ==
  LET hn == URL(hook).hostname IN
  /\ URL(hook).ok
  /\ URL(hook).protocol = "https:"
  /\ ~LoopbackHost(hn) /\ ~PrivateHost(hn) /\ ~LinkLocalHost(hn)
  /\ ~CgnatHost(hn) /\ ~DocumentationHost(hn) /\ ~includesColon(hn)
  /\ Len(hn) >= 2
  /\ URL(origin).ok
  /\ hn = URL(origin).hostname \/ endsWith(hn, URL(origin).hostname)

\* C27: the signed response is POSTed only to a webhook URL that is HTTPS, not
\* a loopback, private, link-local, CGNAT, documentation-reserved or IPv6
\* host, has a dot, and is on the host of the requesting page's origin or a
\* subdomain of it; with any other webhook the approval makes no POST.
C27_PostOnlyToCheckedWebhook ==
  \A i \in DOMAIN h :
    h[i].type = "DAPP_APPROVE" /\ h[i].pc = "post" =>
      AllowedWebhook(h[i].hook, h[i].ent.origin)

\* ---------------------------------------------------------- vault round trip
\* a string without a surrogate that lacks its partner
RECURSIVE WellFormed(_)
WellFormed(s) ==
  IF s = <<>> THEN TRUE
  ELSE IF isHighSurrogate(s[1])
  THEN Len(s) >= 2 /\ isLowSurrogate(s[2]) /\ WellFormed(SubSeq(s, 3, Len(s)))
  ELSE ~isLowSurrogate(s[1]) /\ WellFormed(Tail(s))

StartsWithBOM(s) == s # <<>> /\ s[1] = 65279

\* C28 as stated: for every password and plaintext, decrypting the encrypted
\* plaintext with the same password returns the plaintext, and decrypting it
\* with any other password fails.
C28_RoundTripEveryString ==
  /\ crypt.pc \in {"decryptOther", "done"} =>
       crypt.same.ok /\ crypt.same.plaintext = crypt.plaintext
  /\ crypt.pc = "done" => ~crypt.diff.ok

\* C28 amended: for every plaintext that is a well-formed string and does not
\* start with U+FEFF, decrypting the encrypted plaintext with the same
\* password returns the plaintext; with the same password decryption never
\* fails; decrypting with another password fails when the two passwords are
\* well-formed strings, and whenever it does not fail the two passwords have
\* the same UTF-8 encoding.
C28_RoundTripWellFormed ==
  /\ crypt.pc \in {"decryptOther", "done"} =>
       /\ crypt.same.ok
       /\ WellFormed(crypt.plaintext) /\ ~StartsWithBOM(crypt.plaintext) =>
            crypt.same.plaintext = crypt.plaintext
  /\ crypt.pc = "done" =>
       /\ WellFormed(crypt.password) /\ WellFormed(crypt.other) => ~crypt.diff.ok
       /\ crypt.diff.ok => TextEncode(crypt.password) = TextEncode(crypt.other)

\* a surrogate pair was round-tripped and another well-formed password failed
C28_PairRoundTripped ==
  /\ crypt.pc = "done"
  /\ crypt.plaintext = <<55357, 56832>>
  /\ crypt.same.ok /\ crypt.same.plaintext = crypt.plaintext
  /\ WellFormed(crypt.password) /\ WellFormed(crypt.other) /\ ~crypt.diff.ok

\* ------------------------------------------------------ stored KDF cost
\* C29: a vault stored with the iteration count k is decrypted with k: with
\* the correct password UNLOCK_WALLET and GET_MNEMONIC never take the
\* 'Incorrect password' path, whatever PBKDF2_ITERATIONS is now.
C29_StoredIterationsUsed ==
  \A i \in DOMAIN h :
    h[i].type \in {"UNLOCK_WALLET", "GET_MNEMONIC"} /\ h[i].pc = "recordGet" =>
      h[i].pw # ThePassword

\* ------------------------------------------------- transaction-detail cache
\* C30: GET_TRANSACTIONS answers an entry from the cache only when the list
\* fetched in the same call marks the transaction confirmed; an entry of the
\* list marked unconfirmed is never answered from the cache.
C30_CachedOnlyPerFetchedList ==
  \A i \in DOMAIN h :
    h[i].type = "GET_TRANSACTIONS" =>
      \A k \in DOMAIN h[i].out :
        h[i].out[k].from = "cache" => h[i].fresh /\ h[i].list[k].confirmed

\* handler i returns in this step
HandlerReturns(i) == h[i].pc # "done" /\ h'[i].pc = "done"

\* C31: a GET_BALANCE / GET_CURRENCY_BALANCES whose fetch threw returns the
\* cached value as a success when there is one and fails when there is none;
\* past the session check a query fails in no other case; and a query whose
\* fetch succeeded stores the fetched value as the cached one and returns it.
C31_FallBackToCache ==
  [][\A i \in DOMAIN h :
       h[i].type \in BalanceTypes /\ HandlerReturns(i) =>
         LET cached == local[cacheField(h[i].type)] IN
         /\ h[i].pc = "cached" =>
              IF cached # ""
              THEN last'.resp = "ok" /\ last'.res = cached
              ELSE last'.resp = fetchFailure(h[i].type)
         /\ last'.resp \notin {"ok", "Wallet is locked"} =>
              h[i].pc = "cached" /\ cached = ""
         /\ h[i].pc = "store" =>
              /\ local'[cacheField(h[i].type)] = h[i].res
              /\ last'.resp = "ok" /\ last'.res = h[i].res]_vars

\* a fetch has thrown while a value is cached
C31_FetchFailedWithCache ==
  \E i \in InFlight :
    /\ h[i].type \in BalanceTypes /\ h[i].pc = "cached"
    /\ local[cacheField(h[i].type)] # ""

\* the accounts of the session are exactly the indices 0..n-1, each once, with
\* 1 <= n <= MAX_ACCOUNTS, and the active index is one of them
AccountsWellFormed ==
  session.present =>
    LET n == Len(session.accounts) IN
    /\ 1 <= n /\ n <= MAX_ACCOUNTS
    /\ \A k \in 1..n : session.accounts[k] \in 0..(n - 1)
    /\ \A j, k \in 1..n : session.accounts[j] = session.accounts[k] => j = k
    /\ \E k \in 1..n : session.accounts[k] = session.activeIndex

\* a SWITCH_ADDRESS that reads a session without the index of its payload
\* fails, and the session stays as it is
SwitchToMissingRefused ==
  \A i \in DOMAIN h :
    /\ h[i].type = "SWITCH_ADDRESS" /\ h[i].pc = "getSession" /\ h'[i] # h[i]
    /\ session.present
    /\ \A k \in DOMAIN session.accounts : session.accounts[k] # h[i].idx
    => last'.resp = "Address not found" /\ h'[i] = Idle /\ session' = session

\* C32: whatever CREATE_WALLET, IMPORT_WALLET, UNLOCK_WALLET, ADD_ADDRESS and
\* SWITCH_ADDRESS have run or are running, the accounts of the session have
\* the distinct indices 0..n-1 with 1 <= n <= 100 and activeIndex is one of
\* them; a SWITCH_ADDRESS to an index not in the list fails and leaves the
\* session unchanged.
C32_AccountsContiguous == []AccountsWellFormed /\ [][SwitchToMissingRefused]_vars

\* ADD_ADDRESS has added the account that fills the list, and a later
\* ADD_ADDRESS was refused
C32_ListFilled ==
  /\ session.present /\ Len(session.accounts) = MAX_ACCOUNTS
  /\ last.type = "ADD_ADDRESS" /\ last.resp = "Maximum of accounts reached"

\* C33: the UTXOs a successful selectUTXOs returns are in descending order of
\* value, are the largest of the list (every UTXO left out is worth no more
\* than the last one selected), reach the target, and fall below it without
\* the last one; the list passed in is left in its order.
C33_LargestFirstPrefix ==
  [][(Selecting /\ tx'.err = "") =>
       LET sel == tx'.selected
           n == Len(sel)
           target == outputValue(tx) + tx'.fee
       IN
       /\ n >= 1
       /\ \A k \in 1..(n - 1) : sel[k] >= sel[k + 1]
       /\ \A v \in SelectValues :
            /\ Occurrences(sel, v) <= Occurrences(tx.utxos, v)
            /\ Occurrences(sel, v) < Occurrences(tx.utxos, v) => v <= sel[n]
       /\ SumSeq(sel) >= target
       /\ SumSeq(sel) - sel[n] < target
       /\ tx'.utxos = tx.utxos]_vars

\* of the UTXOs 3,000,000 and 50,000,000, listed in this order, the second
\* alone is selected for 10,000,000 plus the fee
C33_LargestAlone ==
  /\ tx.pc = "loop"
  /\ tx.utxos = <<3000000, 50000000>>
  /\ tx.amount = 10000000
  /\ tx.selected = <<50000000>>

\* buildTransaction run on the inputs of t, its transaction decoding as built
BuiltFor(t) ==
  RunBuilder(BuilderCall("buildTransaction", t.direct, t.addrOk, t.amount,
                         t.utxos, t.feeRate, t.scriptLen, "same"))

\* the value of the change output of a returned run, 0 if there is none
changeSat(t) == IF Len(t.outs) = 2 THEN t.outs[2].value ELSE 0

C35_TabAnsweredOnEveryExit ==
  [][\A i \in DOMAIN h :
       (h[i].type \in ApproveTypes /\ h[i].ent.tabId # 0 /\ HandlerReturns(i)) =>
         \E k \in DOMAIN tabMsgs' :
           /\ tabMsgs'[k].tab = h[i].ent.tabId
           /\ tabMsgs'[k].id = h[i].rid
           /\ tabMsgs'[k].kind = IF h[i].type = "DAPP_APPROVE"
                                 THEN "DAPP_RESPONSE" ELSE "DAPP_SEND_RESPONSE"]_vars

\* the responses sent to tabs for request id
ResponsesFor(id) == {k \in DOMAIN tabMsgs : tabMsgs[k].id = id}

\* C36: for each request id at most one DAPP_RESPONSE / DAPP_SEND_RESPONSE is
\* ever sent to the tab, however approvals, rejections, the closing of the
\* approval window and the purge of expired entries interleave.
C36_AtMostOneResponse ==
  \A id \in 0..nextId - 1 : Cardinality(ResponsesFor(id)) <= 1

\* an approval has answered the tab of a request whose approval window has
\* been closed, and nothing else has answered it
C36_ApprovedAndClosed ==
  /\ InFlight = {}
  /\ last.type \in ApproveTypes /\ last.resp = "ok"
  /\ last.rid \notin windows
  /\ Cardinality(ResponsesFor(last.rid)) = 1

\* C37: when the attempts received so far, all of them failed, have been
\* answered, the stored failure count is their number, also when their
\* handlers interleaved.
C37_EveryFailureCounted ==
  InFlight = {} => local.attempts.count = msgs

\* "true" / "false" as GET_PENDING_LOGIN reports signatureVerified
Reported(r) == IF r THEN "true" ELSE "false"

\* the verifications of request id that have returned
VerifiedResults(id) == {r \in BOOLEAN : <<id, r>> \in verifyLog}

RECURSIVE InputTotal(_, _)
InputTotal(s, currency) ==
  IF s = <<>> THEN 0 ELSE values(Head(s), currency) + InputTotal(Tail(s), currency)

RECURSIVE OutputTotal(_, _)
OutputTotal(s, currency) ==
  IF s = <<>> THEN 0 ELSE carried(Head(s), currency) + OutputTotal(Tail(s), currency)

\* C39: in a transaction buildCurrencyTransaction has built, the outputs
\* carry, of the target currency and of every other currency the selected
\* asset-bearing inputs hold, the total those inputs hold.
C39_AssetsConserved ==
  (tx.fn = "buildCurrencyTransaction" /\ tx.pc = "done" /\ tx.err = "") =>
    \A currency \in {"target", "other"} :
      OutputTotal(tx.outs, currency) = InputTotal(tx.selectedCC, currency)

\* C40: past the fee-fitting loop of buildTransaction and
\* buildConversionTransaction the fee is at least max(10,000, round(size *
\* feeRate / 1000)) for the size of the inputs selected last, also when the
\* loop ended at its bound of five rounds.
C40_FeeCoversFinalSelection ==
  (tx.fn \in {"buildTransaction", "buildConversionTransaction"} /\ tx.pc = "change") =>
    LET n == Len(tx.selected)
        size == IF tx.fn = "buildConversionTransaction"
                THEN 148 * n + (tx.scriptLen + 8) + 34 + 10
                ELSE 148 * n + 2 * 34 + 10
    IN tx.fee >= Max(10000, Round(size * tx.feeRate, 1000))

====
